---- MODULE Spec2Model ----
(***************************************************************************)
(* State-machine model of the SoulWallet SDK (soulwalletlib).              *)
(*                                                                         *)
(* The repository holds two generations of the SoulWallet class:           *)
(*   "result" - src/unnamed/part_000: every method returns Ok/Err          *)
(*   "legacy" - src/packages/soulwallet-sdk/src/soulWallet.ts: methods     *)
(*              throw, estimate/send catch and return UserOpErrors         *)
(* The variable gen fixes the generation of a behaviour.  Every async      *)
(* method is a task that advances from one await to the next; the          *)
(* StorageCache singleton is shared by all SDK instances.                  *)
(***************************************************************************)
EXTENDS Integers, Sequences, FiniteSets, TLC

(* ---------------------------- bounds ---------------------------------- *)
NumInstances == 2
NumTasks == 2

Instances == 1..NumInstances
TaskIds == 1..NumTasks
Generations == {"result", "legacy"}

(* ------------------------- strings / hex ------------------------------ *)
\* A string is a sequence of one-character strings.
Lower(c) == CASE c = "A" -> "a" [] c = "B" -> "b" [] c = "C" -> "c"
                [] c = "D" -> "d" [] c = "E" -> "e" [] c = "F" -> "f" [] OTHER -> c

Upper(c) == CASE c = "a" -> "A" [] c = "b" -> "B" [] c = "c" -> "C"
                [] c = "d" -> "D" [] c = "e" -> "E" [] c = "f" -> "F" [] OTHER -> c

toLowerCase(s) == [i \in DOMAIN s |-> Lower(s[i])]

toUpperCase(s) == [i \in DOMAIN s |-> Upper(s[i])]

RECURSIVE join(_)
join(list) ==
    IF Len(list) = 0 THEN <<>>
    ELSE IF Len(list) = 1 THEN list[1]
    ELSE list[1] \o <<",">> \o join(Tail(list))

\* String.prototype.indexOf: first 0-based position of needle, or -1.
indexOf(hay, needle) ==
    LET n == Len(needle)
        hits == {i \in 0..(Len(hay) - n) :
                    \A j \in 1..n : hay[i + j] = needle[j]}
    IN IF hits = {} THEN -1
       ELSE CHOOSE i \in hits : \A k \in hits : i <= k

HexDigits == <<"0", "1", "2", "3", "4", "5", "6", "7", "8", "9", "a", "b", "c", "d", "e", "f">>

\* BigInt.prototype.toString(16)
RECURSIVE toString16(_)
toString16(n) ==
    IF n < 16 THEN <<HexDigits[n + 1]>>
    ELSE toString16(n \div 16) \o <<HexDigits[(n % 16) + 1]>>

\* '0x' + n.toString(16)
Hex(n) == <<"0", "x">> \o toString16(n)

DigitValue(c) == CHOOSE d \in 0..15 : HexDigits[d + 1] = Lower(c)

RECURSIVE ParseDigits(_, _)
ParseDigits(s, acc) ==
    IF Len(s) = 0 THEN acc ELSE ParseDigits(Tail(s), acc * 16 + DigitValue(Head(s)))

\* a BigNumberish field holds a number or a 0x-string
Num(n) == [t |-> "num", n |-> n, s |-> <<>>]
Str(s) == [t |-> "str", n |-> 0, s |-> s]

\* BigInt(v)
BigInt(v) == IF v.t = "num" THEN v.n ELSE ParseDigits(SubSeq(v.s, 3, Len(v.s)), 0)

(* --------------------------- chain ids -------------------------------- *)
\* A chain id is a bigint; it is kept as two limbs, value = hi * 2^27 + lo,
\* so that values around Number.MAX_SAFE_INTEGER = 2^53 - 1 are exact.
LimbBits == 27
Limb == 2 ^ LimbBits
SafeHi == 2 ^ (53 - LimbBits)

Big(hi, lo) == [hi |-> hi, lo |-> lo]
ZeroId == Big(0, 0)
ChainOne == Big(0, 1)
ChainMaxSafe == Big(SafeHi - 1, Limb - 1)
ChainUnsafe == Big(SafeHi, 0)
ChainIdValues == {ZeroId, ChainOne, ChainMaxSafe, ChainUnsafe}

\* Number.isSafeInteger(Number(b)) for a non-negative bigint b
isSafeInteger(b) == b.hi < SafeHi

(* --------------------------- addresses -------------------------------- *)
FactoryAddr == <<"F", "1">>
LogicAddr == <<"A", "1">>
EntryPointAddr == <<"B", "c">>
OtherAddr == <<"C", "2">>
WalletAddr == <<"D", "4">>
BadAddr == <<"z", "z">>
HookA == <<"E", "5">>
HookB == <<"A", "6">>

\* TypeGuard.onlyAddress: the model's addresses are AddrLen hex digits
AddrLen == Len(FactoryAddr)
onlyAddress(a) ==
    /\ Len(a) = AddrLen
    /\ \A j \in DOMAIN a : \E d \in DOMAIN HexDigits : HexDigits[d] = Lower(a[j])

\* what the bundler may list: the entry point in another letter case,
\* or an unrelated address
BundlerAddrs == {toLowerCase(EntryPointAddr), OtherAddr}
MaxEPList == 2
BundlerLists == UNION {[1..n -> BundlerAddrs] : n \in 0..MaxEPList}

(* ----------------------------- values --------------------------------- *)
None == <<>>
Some(x) == <<x>>

\* new onChainConfig()
onChainConfig == [chainId |-> ZeroId, entryPoint |-> <<>>, soulWalletLogic |-> <<>>]

Ok(v) == [kind |-> "ok", val |-> v, msg |-> ""]
Err(m) == [kind |-> "err", val |-> onChainConfig, msg |-> m]
Throw(m) == [kind |-> "throw", val |-> onChainConfig, msg |-> m]
NoResult == [kind |-> "none", val |-> onChainConfig, msg |-> ""]

(* ------------------------- user operations ---------------------------- *)
EmptyBytes == <<"0", "x">>
InitCodeBytes == <<"0", "x", "f", "1">>
UserSig == <<"0", "x", "5", "5">>
HookInput == <<"0", "x", "7", "7">>
\* the 65-byte 0xff..ff placeholder and its validationData word, at model scale
SemiSig == <<"0", "x", "f", "f">>
SemiValidationData == <<"0", "x", "5", "f", "f", "f">>

Body(b) == SubSeq(b, 3, Len(b))

RECURSIVE Concat(_)
Concat(list) == IF Len(list) = 0 THEN <<>> ELSE Head(list) \o Concat(Tail(list))

\* Signature.packSignature(signature, validationData, hookInputData)
packSignature(signature, validationData, hook) ==
    <<"0", "x">> \o Body(validationData) \o Body(signature)
        \o (IF hook = None THEN <<>>
            ELSE Concat(hook[1].guardHooks) \o Body(hook[1].inputData))

\* Signature.semiValidSignature()
semiValidSignature == packSignature(SemiSig, SemiValidationData, None)

UserOperation(sender, initCode, callGasLimit, gas, signature) ==
    [sender |-> sender, nonce |-> Num(0), initCode |-> initCode, callData |-> EmptyBytes,
     callGasLimit |-> callGasLimit, verificationGasLimit |-> gas,
     preVerificationGas |-> gas, maxFeePerGas |-> Num(0),
     maxPriorityFeePerGas |-> Num(0), paymasterAndData |-> EmptyBytes,
     signature |-> signature]

NoOp == UserOperation(<<>>, EmptyBytes, Num(0), Num(0), EmptyBytes)

\* operations handed to estimateUserOperationGas
EstimateOps ==
    {UserOperation(sd, ic, cg, g, sg) :
        sd \in {WalletAddr, BadAddr}, ic \in {EmptyBytes, InitCodeBytes},
        cg \in {Num(0), Num(3), Str(Hex(16))}, g \in {Num(0), Num(7)},
        sg \in {EmptyBytes, UserSig}}

GuardInputs(op) ==
    {None} \cup {Some([sender |-> x, inputData |-> HookInput]) :
                    x \in {toLowerCase(op.sender), OtherAddr}}

MaxHooks == 2
HookLists == UNION {[1..n -> {HookA, HookB}] : n \in 0..MaxHooks}

\* answers of eth_estimateUserOperationGas
BundlerEstimates ==
    {[preVerificationGas |-> Str(Hex(1)), verificationGasLimit |-> Str(Hex(2)),
      callGasLimit |-> Str(Hex(c))] : c \in {4, 15}}
NoEstimate ==
    [preVerificationGas |-> Str(Hex(0)), verificationGasLimit |-> Str(Hex(0)),
     callGasLimit |-> Str(Hex(0))]

\* GasOverhead.calcGasOverhead(userOp): tops up preVerificationGas
GasOverheadTopUp == 5
calcGasOverhead(op) ==
    [op EXCEPT !.preVerificationGas = Str(Hex(BigInt(@) + GasOverheadTopUp))]

\* getUserOpHash(userOp, entryPoint, chainId)
getUserOpHash(op, entryPoint, chainId) ==
    <<"0", "x">> \o toLowerCase(entryPoint) \o toString16(BigInt(op.callGasLimit))
        \o toString16(chainId.lo % 16)

VARIABLES
    gen,        \* generation of the SDK code
    sdk,        \* SDK instances: constructor arguments and _onChainConfig
    cache,      \* StorageCache singleton: key -> value
    bundlerEPs, \* what eth_supportedEntryPoints answers when it answers
    tasks,      \* async calls in flight
    passed,     \* history: cache keys for which a resolution passed every check
    failed      \* history: cache keys whose latest finished resolution failed

vars == <<gen, sdk, cache, bundlerEPs, tasks, passed, failed>>

(* --------------------------- StorageCache ----------------------------- *)
CacheGet(c, key, default) == IF key \in DOMAIN c THEN c[key] ELSE default

CacheSet(c, key, value) == [k \in DOMAIN c \cup {key} |-> IF k = key THEN value ELSE c[k]]

(* ------------------------ getOnChainConfig ---------------------------- *)
\* `onChainConfig_${factory}_${chainId}` / `onChainConfig_${factory}`
ConfigKey(g, factory, chainId) ==
    IF g = "result" THEN <<"onChainConfig", factory, chainId>>
    ELSE <<"onChainConfig", factory>>

\* The chain-id check applied to the provider's and to the bundler's answer.
\* "" when the id is acceptable, else the message of the failure.
CheckChainId(g, id, who) ==
    IF isSafeInteger(id)
    THEN IF id = ZeroId
         THEN (IF g = "result" /\ who = "bundler" THEN "Invalid bundler chainId" ELSE "Invalid chainId")
         ELSE ""
    ELSE (IF g = "result" /\ who = "bundler" THEN "bundler chainId is not a safe integer"
          ELSE "chainId is not a safe integer")

\* mutant: the provider/bundler comparison is dropped
ChainIdsDiffer_Never(chainId, bundlerChainId) == FALSE

ChainIdsDiffer(chainId, bundlerChainId) == chainId # bundlerChainId

\* ret.OK.join().toLowerCase().indexOf(entryPoint.toLowerCase()) === -1
EntryPointUnsupported(list, entryPoint) ==
    indexOf(toLowerCase(join(list)), toLowerCase(entryPoint)) = -1

\* a failure of getOnChainConfig: Err in the result generation, thrown in legacy
Fail(g, m) == IF g = "result" THEN Err(m) ELSE Throw(m)

\* no arguments of createUnsignedDeployWalletUserOp
NoDeployArgs ==
    [index |-> 0, initialKey |-> <<>>, initialGuardianHash |-> <<>>,
     callData |-> <<>>, initialGuardianSafePeriod |-> None]

\* no arguments of DeployFactory.deploy
NoFactoryArgs == [logicContractAddress |-> <<>>, salt |-> None, ver |-> 1]

\* no initializer arguments (yet)
NoInitializeArgs ==
    [anOwner |-> <<>>, defalutCallbackHandler |-> <<>>, modules |-> <<>>, plugins |-> <<>>]

\* no prefund figures (yet)
NoFund == [deposit |-> <<>>, prefund |-> <<>>, missfund |-> <<>>]

IdleTask ==
    [op |-> "idle", pc |-> "idle", inst |-> 1, cont |-> "done",
     chainId |-> ZeroId, logic |-> <<>>, ep |-> <<>>, bchain |-> ZeroId,
     cfg |-> onChainConfig,
     res |-> NoResult, out |-> NoResult,
     userOp |-> NoOp, op0 |-> NoOp, gh |-> None, semi |-> FALSE, est |-> NoEstimate,
     cfgCalled |-> FALSE, cfgOk |-> FALSE, estCalled |-> FALSE, sentSig |-> EmptyBytes, packFail |-> FALSE,
     accepted |-> FALSE, bhash |-> <<>>, lhash |-> <<>>,
     rdNet |-> FALSE, rdImpl |-> FALSE, rdEp |-> FALSE, rdBnet |-> FALSE,
     rdSup |-> FALSE, wrote |-> FALSE, hadKey |-> FALSE, hadMemo |-> FALSE,
     afterFail |-> FALSE,
     fund |-> NoFund, rdBal |-> FALSE,
     from |-> <<>>, txs |-> <<>>, nonce |-> None, rdCode |-> FALSE, rdNonce |-> FALSE,
     dargs |-> NoDeployArgs, initCode |-> <<>>, rdAddr |-> FALSE,
     rpc |-> "none", rpcCalls |-> 0,
     sig0 |-> <<>>, vd0 |-> <<>>, hooksRead |-> None, handed |-> None, packed |-> <<>>,
     depKey |-> <<>>, hadDep |-> FALSE, codeAns |-> "none",
     initArgs |-> NoInitializeArgs, calcArgs |-> NoInitializeArgs,
     fargs |-> NoFactoryArgs, addr |-> <<>>, code1 |-> "none", code2 |-> "none",
     sent |-> 0, waited |-> FALSE, retAddr |-> <<>>]

\* the cache key the instance's resolution uses (its provider's chain id)
KeyOf(i) == ConfigKey(gen, sdk[i].factory, sdk[i].chain)

\* getOnChainConfig returns r to its caller: the task goes on at t.cont
\* (the callee's locals are gone once it has returned into a caller)
Return(t, r) ==
    IF t.cont = "done" THEN [t EXCEPT !.pc = "done", !.res = r, !.out = r]
    ELSE [t EXCEPT !.pc = t.cont, !.res = r,
                   !.chainId = ZeroId, !.logic = <<>>, !.ep = <<>>, !.bchain = ZeroId,
                   !.cfg = onChainConfig, !.rdNet = FALSE, !.rdImpl = FALSE,
                   !.rdEp = FALSE, !.rdBnet = FALSE, !.rdSup = FALSE, !.wrote = FALSE,
                   !.hadKey = FALSE, !.hadMemo = FALSE, !.afterFail = FALSE]

\* mutant: the instance's own _onChainConfig is not consulted
CfgEnter_NoMemo(t) ==
    [t EXCEPT !.rdNet = FALSE, !.rdImpl = FALSE, !.rdEp = FALSE,
              !.rdBnet = FALSE, !.rdSup = FALSE, !.wrote = FALSE,
              !.hadKey = KeyOf(t.inst) \in DOMAIN cache,
              !.hadMemo = sdk[t.inst].memo # None, !.cfgCalled = TRUE,
              !.afterFail = KeyOf(t.inst) \in failed,
              !.chainId = ZeroId, !.bchain = ZeroId, !.res = NoResult,
              !.pc = IF gen = "result" THEN "cfg_net" ELSE "cfg_impl"]

\* entry of getOnChainConfig up to its first await: the result generation
\* looks at this._onChainConfig (part_000:83-88), the legacy generation at the
\* StorageCache under the factory-only key (soulWallet.ts:66-71)
CfgEnter(t) ==
    LET i == t.inst
        t0 == [t EXCEPT !.rdNet = FALSE, !.rdImpl = FALSE, !.rdEp = FALSE,
                        !.rdBnet = FALSE, !.rdSup = FALSE, !.wrote = FALSE,
                        !.hadKey = KeyOf(i) \in DOMAIN cache,
                        !.hadMemo = sdk[i].memo # None, !.cfgCalled = TRUE,
                        !.afterFail = KeyOf(i) \in failed,
                        !.chainId = ZeroId, !.bchain = ZeroId, !.res = NoResult]
    IN IF gen = "result"
       THEN IF sdk[i].memo # None
            THEN Return(t0, Ok(sdk[i].memo[1]))
            ELSE [t0 EXCEPT !.pc = "cfg_net"]
       ELSE IF CacheGet(cache, ConfigKey(gen, sdk[i].factory, ZeroId), None) # None
            THEN Return(t0, Ok(CacheGet(cache, ConfigKey(gen, sdk[i].factory, ZeroId), None)[1]))
            ELSE [t0 EXCEPT !.pc = "cfg_impl"]

\* freshly constructed SDK instances on providers with the given chain ids,
\* an empty StorageCache, a bundler with one of the given lists
InitWith(chains, lists) ==
    /\ gen \in Generations
    /\ sdk \in [Instances -> [factory : {FactoryAddr}, chain : chains, memo : {None},
                               epc : {None}]]
    /\ cache = << >>
    /\ bundlerEPs \in lists
    /\ tasks = [t \in TaskIds |-> IdleTask]
    /\ passed = {}
    /\ failed = {}

Init == InitWith(ChainIdValues, BundlerLists)

\* history of the latest outcome per key, kept when a resolution returns
NoteOutcome(t, new) ==
    IF new.res.kind = "none" THEN failed
    ELSE IF new.res.kind = "ok" THEN failed \ {KeyOf(tasks[t].inst)}
    ELSE failed \cup {KeyOf(tasks[t].inst)}

\* a caller invokes getOnChainConfig on instance i
CallResolve(t, i) ==
    /\ tasks[t].pc = "idle"
    /\ tasks' = [tasks EXCEPT ![t] =
                    [IdleTask EXCEPT !.op = "resolve", !.inst = i, !.pc = "cfg_enter"]]
    /\ UNCHANGED <<gen, sdk, cache, bundlerEPs, passed, failed>>

\* getOnChainConfig from its entry to its first await
StepCfgEnter(t) ==
    /\ tasks[t].pc = "cfg_enter"
    /\ LET new == CfgEnter(tasks[t])
       IN /\ tasks' = [tasks EXCEPT ![t] = new]
          /\ failed' = NoteOutcome(t, new)
    /\ UNCHANGED <<gen, sdk, cache, bundlerEPs, passed>>

\* provider.getNetwork() answers (or rejects): part_000:88-106, where the
\* cache is looked up next; soulWallet.ts:77-87, where it follows entryPoint()
StepCfgNet(t) ==
    /\ tasks[t].pc = "cfg_net"
    /\ \E ok \in BOOLEAN :
        LET cur == [tasks[t] EXCEPT !.rdNet = TRUE]
            i == cur.inst
            id == sdk[i].chain
            msg == CheckChainId(gen, id, "provider")
            key == ConfigKey(gen, sdk[i].factory, id)
            hit == CacheGet(cache, key, None)
            new == IF ~ok THEN Return(cur, Throw("provider.getNetwork failed"))
                   ELSE IF msg # "" THEN Return([cur EXCEPT !.chainId = id], Fail(gen, msg))
                   ELSE IF gen = "legacy" THEN [cur EXCEPT !.chainId = id, !.pc = "cfg_bnet"]
                   ELSE IF hit # None THEN Return([cur EXCEPT !.chainId = id], Ok(hit[1]))
                   ELSE [cur EXCEPT !.chainId = id, !.pc = "cfg_impl"]
        IN /\ tasks' = [tasks EXCEPT ![t] = new]
           /\ sdk' = IF new.res.kind = "ok"
                     THEN [sdk EXCEPT ![i].memo = Some(new.res.val)]
                     ELSE sdk
           /\ failed' = NoteOutcome(t, new)
    /\ UNCHANGED <<gen, cache, bundlerEPs, passed>>

\* factory.walletImpl() answers
StepCfgImpl(t) ==
    /\ tasks[t].pc = "cfg_impl"
    /\ \E ok \in BOOLEAN :
        LET cur == [tasks[t] EXCEPT !.rdImpl = TRUE]
            new == IF ~ok THEN Return(cur, Throw("walletImpl failed"))
                   ELSE [cur EXCEPT !.logic = LogicAddr, !.pc = "cfg_ep"]
        IN /\ tasks' = [tasks EXCEPT ![t] = new]
           /\ failed' = NoteOutcome(t, new)
    /\ UNCHANGED <<gen, sdk, cache, bundlerEPs, passed>>

\* soulWalletLogic.entryPoint() answers
StepCfgEp(t) ==
    /\ tasks[t].pc = "cfg_ep"
    /\ \E ok \in BOOLEAN :
        LET cur == [tasks[t] EXCEPT !.rdEp = TRUE]
            new == IF ~ok THEN Return(cur, Throw("entryPoint failed"))
                   ELSE [cur EXCEPT !.ep = EntryPointAddr,
                                    !.pc = IF gen = "result" THEN "cfg_bnet" ELSE "cfg_net"]
        IN /\ tasks' = [tasks EXCEPT ![t] = new]
           /\ failed' = NoteOutcome(t, new)
    /\ UNCHANGED <<gen, sdk, cache, bundlerEPs, passed>>

\* mutant: the config is saved before soulWalletLogic is assigned
FilledConfig_Partial(chainId, entryPoint, soulWalletLogic) ==
    [chainId |-> chainId, entryPoint |-> entryPoint, soulWalletLogic |-> <<>>]

\* the three assignments to the new onChainConfig, made without an await
\* between them and the cache write
FilledConfig(chainId, entryPoint, soulWalletLogic) ==
    [chainId |-> chainId, entryPoint |-> entryPoint, soulWalletLogic |-> soulWalletLogic]

\* bundler.getNetwork() answers; the config is filled and saved to the cache
\* (part_000:114-142, soulWallet.ts:87-109)
StepCfgBnet(t) ==
    /\ tasks[t].pc = "cfg_bnet"
    /\ \E ok \in BOOLEAN, bid \in ChainIdValues :
        LET cur == [tasks[t] EXCEPT !.rdBnet = TRUE]
            i == cur.inst
            msg == CheckChainId(gen, bid, "bundler")
            key == ConfigKey(gen, sdk[i].factory, cur.chainId)
            c == FilledConfig(cur.chainId, cur.ep, cur.logic)
            good == ok /\ msg = "" /\ ~ChainIdsDiffer(cur.chainId, bid)
            new == IF ~ok THEN Return(cur, Throw("bundler.getNetwork failed"))
                   ELSE IF msg # "" THEN Return([cur EXCEPT !.bchain = bid], Fail(gen, msg))
                   ELSE IF ChainIdsDiffer(cur.chainId, bid)
                        THEN Return([cur EXCEPT !.bchain = bid],
                                    Fail(gen, IF gen = "result" THEN "chainId !== bundler chainId"
                                              ELSE "chainId mismatch"))
                   ELSE [cur EXCEPT !.bchain = bid, !.cfg = c, !.wrote = TRUE, !.pc = "cfg_sup"]
        IN /\ tasks' = [tasks EXCEPT ![t] = new]
           /\ cache' = IF good THEN CacheSet(cache, key, Some(c)) ELSE cache
           /\ failed' = NoteOutcome(t, new)
    /\ UNCHANGED <<gen, sdk, bundlerEPs, passed>>

\* Bundler.eth_supportedEntryPoints() answers (part_000:142-153,
\* soulWallet.ts:109-119)
StepCfgSup(t) ==
    /\ tasks[t].pc = "cfg_sup"
    /\ \E ok \in BOOLEAN :
        LET cur == [tasks[t] EXCEPT !.rdSup = TRUE]
            i == cur.inst
            key == ConfigKey(gen, sdk[i].factory, cur.chainId)
            good == ok /\ ~EntryPointUnsupported(bundlerEPs, cur.ep)
            new == IF ~ok THEN Return(cur, Fail(gen, "Bundler RPC error"))
                   ELSE IF EntryPointUnsupported(bundlerEPs, cur.ep)
                        THEN Return(cur, Fail(gen, "Bundler network doesn't support entryPoint"))
                   ELSE Return(cur, Ok(cur.cfg))
        IN /\ tasks' = [tasks EXCEPT ![t] = new]
           /\ sdk' = IF good /\ gen = "result"
                     THEN [sdk EXCEPT ![i].memo = Some(cur.cfg)]
                     ELSE sdk
           /\ passed' = IF good THEN passed \cup {key} ELSE passed
           /\ failed' = NoteOutcome(t, new)
    /\ UNCHANGED <<gen, cache, bundlerEPs>>

\* the caller has its answer; the task slot is free again
Finish(t) ==
    /\ tasks[t].pc = "done"
    /\ tasks' = [tasks EXCEPT ![t] = IdleTask]
    /\ UNCHANGED <<gen, sdk, cache, bundlerEPs, passed, failed>>

(* ---------------------- estimateUserOperationGas ----------------------- *)
OkTrue == Ok(onChainConfig)

\* mutant: the initCode of a hook-assisted estimation is not looked at
EstimateValidation_NoInitCode(g, op, hook) ==
    IF g = "legacy" \/ hook = None THEN ""
    ELSE IF toLowerCase(hook[1].sender) # toLowerCase(op.sender) THEN "invalid sender"
    ELSE ""

\* the guard-hook validation at the head of estimateUserOperationGas;
\* "" when it passes
EstimateValidation(g, op, hook) ==
    IF g = "legacy" \/ hook = None THEN ""
    ELSE IF toLowerCase(hook[1].sender) # toLowerCase(op.sender) THEN "invalid sender"
    ELSE IF op.initCode = EmptyBytes
         THEN "cannot set semiValidGuardHookInputData when the contract wallet is not deployed"
    ELSE ""

\* the value callGasLimit takes on a successful estimation (part_000:465-477;
\* soulWallet.ts:335 stores the bundler's value as it is)
NewCallGasLimit(g, current, reported) ==
    IF g = "legacy" THEN reported
    ELSE IF BigInt(current) % 2 = 0
         THEN LET n == BigInt(reported)
              IN Str(Hex(IF n % 2 = 1 THEN n + 1 ELSE n))
         ELSE current

\* mutant: the overhead top-up is applied before the bundler's values are
\* written
ApplyEstimate_TopUpFirst(g, op, e) ==
    [calcGasOverhead(op) EXCEPT
        !.preVerificationGas = e.preVerificationGas,
        !.verificationGasLimit = e.verificationGasLimit,
        !.callGasLimit = NewCallGasLimit(g, op.callGasLimit, e.callGasLimit)]

ApplyEstimate(g, op, e) ==
    calcGasOverhead(
        [op EXCEPT !.preVerificationGas = e.preVerificationGas,
                   !.verificationGasLimit = e.verificationGasLimit,
                   !.callGasLimit = NewCallGasLimit(g, op.callGasLimit, e.callGasLimit)])

\* mutant: the cleanup step is skipped
Finally_Skip(semiValidSignature_, op) == op

\* finally { if (semiValidSignature) userOp.signature = "0x" }
Finally(semiValidSignature_, op) ==
    IF semiValidSignature_ THEN [op EXCEPT !.signature = EmptyBytes] ELSE op

\* estimateUserOperationGas returns r (or throws); the finally block runs
EstimateExit(t, r) ==
    [t EXCEPT !.pc = "done", !.out = r, !.userOp = Finally(t.semi, t.userOp)]

\* a fault thrown inside estimate's try block: propagates in the result
\* generation, is caught and returned as UnknownError in legacy
Fault(g, m) == IF g = "result" THEN Throw(m) ELSE Err(m)

\* the operation is handed to Bundler.eth_estimateUserOperationGas
ToBundler(t) == [t EXCEPT !.pc = "est_rpc", !.estCalled = TRUE, !.sentSig = t.userOp.signature]

\* a caller invokes estimateUserOperationGas(op, hook) on instance i
CallEstimate(t, i, op, hook) ==
    /\ tasks[t].pc = "idle"
    /\ gen = "legacy" => hook = None
    /\ LET msg == EstimateValidation(gen, op, hook)
           t0 == [IdleTask EXCEPT !.op = "estimate", !.inst = i, !.userOp = op, !.op0 = op,
                                  !.gh = hook, !.semi = (op.signature = EmptyBytes)]
       IN tasks' = [tasks EXCEPT ![t] =
                      IF msg # "" THEN [t0 EXCEPT !.pc = "done", !.out = Err(msg)]
                      ELSE [t0 EXCEPT !.pc = "cfg_enter", !.cont = "est_cfg"]]
    /\ UNCHANGED <<gen, sdk, cache, bundlerEPs, passed, failed>>

\* getOnChainConfig has returned to estimateUserOperationGas: part_000:442-459
\* packs the placeholder with or without guard hooks; soulWallet.ts:318-329
\* installs it for a deploy operation only and throws otherwise
StepEstCfg(t) ==
    /\ tasks[t].pc = "est_cfg"
    /\ LET cur == tasks[t]
           r == cur.res
           ok == [cur EXCEPT !.cfgOk = TRUE]
           placeholder == IF gen = "result"
                          THEN packSignature(SemiSig, SemiValidationData, None)
                          ELSE semiValidSignature
           new ==
             IF r.kind = "throw"
             THEN (IF gen = "result" THEN [cur EXCEPT !.pc = "done", !.out = r]
                   ELSE EstimateExit(cur, Err(r.msg)))
             ELSE IF r.kind = "err" THEN [cur EXCEPT !.pc = "done", !.out = Err(r.msg)]
             ELSE IF ~cur.semi THEN ToBundler(ok)
             ELSE IF gen = "legacy"
                  THEN (IF cur.userOp.initCode # EmptyBytes
                        THEN ToBundler([ok EXCEPT !.userOp.signature = placeholder])
                        ELSE EstimateExit(ok, Err("not implement now!")))
             ELSE IF cur.gh = None
                  THEN ToBundler([ok EXCEPT !.userOp.signature = placeholder])
             ELSE IF ~onlyAddress(cur.gh[1].sender)
                  THEN EstimateExit([ok EXCEPT !.packFail = TRUE], Throw("invalid sender"))
             ELSE [ok EXCEPT !.pc = "est_hooks"]
       IN tasks' = [tasks EXCEPT ![t] = new]
    /\ UNCHANGED <<gen, sdk, cache, bundlerEPs, passed, failed>>

\* mutant: the hook list is stripped of repeated addresses
HookInputDataOf_Dedup(hooks, inputData) ==
    Some([guardHooks |-> SelectSeq([j \in DOMAIN hooks |->
                                       IF \E k \in 1..(j - 1) : hooks[k] = hooks[j]
                                       THEN <<>> ELSE hooks[j]],
                                   LAMBDA h : h # <<>>),
          inputData |-> inputData])

\* hookInputData.guardHooks = <the list read>; hookInputData.inputData = ...
HookInputDataOf(hooks, inputData) ==
    Some([guardHooks |-> hooks, inputData |-> inputData])

\* listPlugin(1) answers for packUserOpSignature
StepEstHooks(t) ==
    /\ tasks[t].pc = "est_hooks"
    /\ \E ok \in BOOLEAN, hooks \in HookLists :
        LET cur == tasks[t]
            hd == HookInputDataOf(hooks, cur.gh[1].inputData)
            new == IF ~ok THEN EstimateExit([cur EXCEPT !.packFail = TRUE], Err("listPlugin failed"))
                   ELSE ToBundler([cur EXCEPT !.userOp.signature =
                                      packSignature(SemiSig, SemiValidationData, hd)])
        IN tasks' = [tasks EXCEPT ![t] = new]
    /\ UNCHANGED <<gen, sdk, cache, bundlerEPs, passed, failed>>

\* mutant: the gas fields are written before the answer is looked at
EstimateRejected_Partial(t) ==
    EstimateExit([t EXCEPT !.userOp = ApplyEstimate(gen, t.userOp, NoEstimate)],
                 Err("bundler error"))

\* if (userOpGasRet.isErr()) return new Err(userOpGasRet.ERR)
EstimateRejected(t) == EstimateExit(t, Err("bundler error"))

\* Bundler.eth_estimateUserOperationGas answers
StepEstRpc(t) ==
    /\ tasks[t].pc = "est_rpc"
    /\ \E kind \in {"ok", "err", "throw"}, e \in BundlerEstimates :
        LET cur == [tasks[t] EXCEPT !.rpc = kind, !.rpcCalls = @ + 1]
            new == IF kind = "throw" THEN EstimateExit(cur, Fault(gen, "bundler fault"))
                   ELSE IF kind = "err" THEN EstimateRejected(cur)
                   ELSE EstimateExit([cur EXCEPT !.est = e,
                                                 !.userOp = ApplyEstimate(gen, cur.userOp, e)],
                                     OkTrue)
        IN tasks' = [tasks EXCEPT ![t] = new]
    /\ UNCHANGED <<gen, sdk, cache, bundlerEPs, passed, failed>>

(* ------------------------- sendUserOperation --------------------------- *)
SendOps == {UserOperation(WalletAddr, EmptyBytes, cg, Num(7), UserSig) : cg \in {Num(0), Num(3)}}

OtherHash == <<"0", "x", "9", "9">>

\* what eth_sendUserOperation may return for an operation whose hash is h
BundlerHashes(h) == {h, toUpperCase(h), OtherHash}

\* mutant: the two hashes are never compared
HashesDiffer_Never(bundlerHash, localHash) == FALSE

\* sendUserOpRet.OK.toLowerCase() !== userOPHashLocal.OK.toLowerCase()
HashesDiffer(bundlerHash, localHash) == toLowerCase(bundlerHash) # toLowerCase(localHash)

\* a caller invokes sendUserOperation(op) on instance i
CallSend(t, i, op) ==
    /\ tasks[t].pc = "idle"
    /\ tasks' = [tasks EXCEPT ![t] =
                    [IdleTask EXCEPT !.op = "send", !.inst = i, !.userOp = op, !.op0 = op,
                                     !.pc = "cfg_enter", !.cont = "send_cfg"]]
    /\ UNCHANGED <<gen, sdk, cache, bundlerEPs, passed, failed>>

\* getOnChainConfig has returned to sendUserOperation
StepSendCfg(t) ==
    /\ tasks[t].pc = "send_cfg"
    /\ LET cur == tasks[t]
           r == cur.res
           new == IF r.kind = "throw"
                  THEN [cur EXCEPT !.pc = "done", !.out = Fault(gen, r.msg)]
                  ELSE IF r.kind = "err" THEN [cur EXCEPT !.pc = "done", !.out = Err(r.msg)]
                  ELSE [cur EXCEPT !.pc = "send_rpc", !.cfgOk = TRUE, !.cfg = r.val]
       IN tasks' = [tasks EXCEPT ![t] = new]
    /\ UNCHANGED <<gen, sdk, cache, bundlerEPs, passed, failed>>

\* mutant: a rejected operation is hashed and compared all the same
SendRejected_GoesOn(t) == [t EXCEPT !.pc = "cfg_enter", !.cont = "send_hash"]

\* if (sendUserOpRet.isErr()) return new Err(sendUserOpRet.ERR)
SendRejected(t) == [t EXCEPT !.pc = "done", !.out = Err("bundler error")]

\* Bundler.eth_sendUserOperation answers; userOpHash() is called
StepSendRpc(t) ==
    /\ tasks[t].pc = "send_rpc"
    /\ \E kind \in {"ok", "err", "throw"} :
       \E h \in BundlerHashes(getUserOpHash(tasks[t].userOp, tasks[t].cfg.entryPoint,
                                            tasks[t].cfg.chainId)) :
        LET cur == [tasks[t] EXCEPT !.rpc = kind, !.rpcCalls = @ + 1]
            new == IF kind = "throw"
                   THEN [cur EXCEPT !.pc = "done", !.out = Fault(gen, "bundler fault")]
                   ELSE IF kind = "err"
                        THEN SendRejected(cur)
                   ELSE [cur EXCEPT !.accepted = TRUE, !.bhash = h,
                                    !.pc = "cfg_enter", !.cont = "send_hash"]
        IN tasks' = [tasks EXCEPT ![t] = new]
    /\ UNCHANGED <<gen, sdk, cache, bundlerEPs, passed, failed>>

\* userOpHash() has its config; the two hashes are compared
StepSendHash(t) ==
    /\ tasks[t].pc = "send_hash"
    /\ LET cur == tasks[t]
           r == cur.res
           local == getUserOpHash(cur.userOp, r.val.entryPoint, r.val.chainId)
           new == IF r.kind = "throw"
                  THEN [cur EXCEPT !.pc = "done", !.out = Fault(gen, r.msg)]
                  ELSE IF r.kind = "err" THEN [cur EXCEPT !.pc = "done", !.out = Err(r.msg)]
                  ELSE IF HashesDiffer(cur.bhash, local)
                       THEN [cur EXCEPT !.pc = "done", !.lhash = local,
                                        !.out = Fault(gen, "userOpHash !== userOPHashLocal")]
                  ELSE [cur EXCEPT !.pc = "done", !.lhash = local, !.out = OkTrue]
       IN tasks' = [tasks EXCEPT ![t] = new]
    /\ UNCHANGED <<gen, sdk, cache, bundlerEPs, passed, failed>>

\* Spec: one caller at a time (calls follow one another on any instance)
MainTask == CHOOSE t \in TaskIds : \A u \in TaskIds : t <= u

\* the steps of getOnChainConfig, whoever called it
CfgNext(t) ==
        \/ StepCfgEnter(t)
        \/ StepCfgNet(t)
        \/ StepCfgImpl(t)
        \/ StepCfgEp(t)
        \/ StepCfgBnet(t)
        \/ StepCfgSup(t)
        \/ Finish(t)

Next ==
        \/ \E i \in Instances : CallResolve(MainTask, i)
        \/ CfgNext(MainTask)

Spec == Init /\ [][Next]_vars

\* the environment of the specifications of the calls that use the config:
\* a provider with an invalid or a valid chain id, a bundler that lists the
\* entry point or nothing
InitCall == InitWith({ZeroId, ChainOne}, {<< >>, <<toLowerCase(EntryPointAddr)>>})

\* SpecEstimate: estimateUserOperationGas calls, one after another
NextEstimate ==
        \/ \E i \in Instances, op \in EstimateOps :
              \E hook \in GuardInputs(op) : CallEstimate(MainTask, i, op, hook)
        \/ StepEstCfg(MainTask)
        \/ StepEstHooks(MainTask)
        \/ StepEstRpc(MainTask)
        \/ CfgNext(MainTask)

SpecEstimate == InitCall /\ [][NextEstimate]_vars

\* SpecSend: sendUserOperation calls, one after another
NextSend ==
        \/ \E i \in Instances, op \in SendOps : CallSend(MainTask, i, op)
        \/ StepSendCfg(MainTask)
        \/ StepSendRpc(MainTask)
        \/ StepSendHash(MainTask)
        \/ CfgNext(MainTask)

SpecSend == InitCall /\ [][NextSend]_vars

(* ------------------------------ preFund -------------------------------- *)
\* operations handed to preFund: every gas field zero or not, a paymaster
\* or none, numbers given as numbers or as hex strings
PaymasterData == <<"0", "x", "a", "b">>
PrefundOps ==
    {[UserOperation(WalletAddr, EmptyBytes, cg, Num(0), UserSig) EXCEPT
         !.verificationGasLimit = vg, !.preVerificationGas = pv,
         !.maxFeePerGas = mf, !.paymasterAndData = pm] :
        cg \in {Num(0), Str(Hex(4))}, vg \in {Num(0), Num(3)},
        pv \in {Str(Hex(0)), Num(1)}, mf \in {Num(0), Str(Hex(2))},
        pm \in {EmptyBytes, PaymasterData}}

\* what EntryPoint.balanceOf(sender) may answer
Deposits == {0, 9, 40}

\* mutant: only the fee is required to be nonzero
PrefundInvalid_FeeOnly(op) == BigInt(op.maxFeePerGas) = 0

\* the precondition check of preFund
PrefundInvalid(op) ==
    \/ BigInt(op.maxFeePerGas) = 0
    \/ BigInt(op.preVerificationGas) = 0
    \/ BigInt(op.verificationGasLimit) = 0

\* mutant: the verification gas is counted once, paymaster or not
requiredPrefund_NoPaymaster(op) ==
    (BigInt(op.callGasLimit) + BigInt(op.verificationGasLimit)
        + BigInt(op.preVerificationGas)) * BigInt(op.maxFeePerGas)

\* requiredGas * maxFeePerGas
requiredPrefund(op) ==
    LET mul == IF op.paymasterAndData # EmptyBytes THEN 3 ELSE 1
        requiredGas == BigInt(op.callGasLimit) + BigInt(op.verificationGasLimit) * mul
                           + BigInt(op.preVerificationGas)
    IN requiredGas * BigInt(op.maxFeePerGas)

\* the three figures preFund returns, as hex strings
PrefundData(op, deposit) ==
    LET missfund == IF deposit < requiredPrefund(op) THEN requiredPrefund(op) - deposit ELSE 0
    IN [deposit |-> Hex(deposit), prefund |-> Hex(requiredPrefund(op)),
        missfund |-> Hex(missfund)]

\* an exception inside preFund: the result generation's catch turns an Error
\* into a failure result and anything else into "unknown error"; the legacy
\* generation has no catch
PrefundCatch(g, m, isError) ==
    IF g = "legacy" THEN Throw(m)
    ELSE IF isError THEN Err(m) ELSE Err("unknown error")

\* preFund(userOp) up to its first await
CallPrefund(t, i, op) ==
    /\ tasks[t].pc = "idle"
    /\ LET t0 == [IdleTask EXCEPT !.op = "prefund", !.inst = i, !.userOp = op, !.op0 = op]
       IN tasks' = [tasks EXCEPT ![t] =
              IF PrefundInvalid(op)
              THEN [t0 EXCEPT !.pc = "done",
                              !.out = PrefundCatch(gen,
                                  "maxFeePerGas, preVerificationGas, verificationGasLimit must > 0",
                                  TRUE)]
              ELSE [t0 EXCEPT !.pc = "cfg_enter", !.cont = "pf_cfg"]]
    /\ UNCHANGED <<gen, sdk, cache, bundlerEPs, passed, failed>>

\* getOnChainConfig has returned to preFund; the result generation goes on
\* to getEntryPointContract, which resolves the config again unless the
\* instance holds the contract already
StepPfCfg(t) ==
    /\ tasks[t].pc = "pf_cfg"
    /\ LET cur == tasks[t]
           r == cur.res
           new == IF r.kind = "throw"
                  THEN [cur EXCEPT !.pc = "done", !.out = PrefundCatch(gen, r.msg, TRUE)]
                  ELSE IF r.kind = "err"
                  THEN [cur EXCEPT !.pc = "done", !.out = PrefundCatch(gen, r.msg, FALSE)]
                  ELSE IF gen = "result" /\ sdk[cur.inst].epc = None
                  THEN [cur EXCEPT !.cfgOk = TRUE, !.pc = "cfg_enter", !.cont = "pf_epc"]
                  ELSE [cur EXCEPT !.cfgOk = TRUE, !.pc = "pf_bal"]
       IN tasks' = [tasks EXCEPT ![t] = new]
    /\ UNCHANGED <<gen, sdk, cache, bundlerEPs, passed, failed>>

\* getEntryPointContract: its getOnChainConfig has returned
StepPfEpc(t) ==
    /\ tasks[t].pc = "pf_epc"
    /\ LET cur == tasks[t]
           r == cur.res
       IN /\ tasks' = [tasks EXCEPT ![t] =
                 IF r.kind = "throw"
                 THEN [cur EXCEPT !.pc = "done", !.out = PrefundCatch(gen, r.msg, TRUE)]
                 ELSE IF r.kind = "err" THEN [cur EXCEPT !.pc = "done", !.out = Err(r.msg)]
                 ELSE [cur EXCEPT !.pc = "pf_bal"]]
          /\ sdk' = IF r.kind = "ok"
                    THEN [sdk EXCEPT ![cur.inst].epc = Some(r.val.entryPoint)]
                    ELSE sdk
    /\ UNCHANGED <<gen, cache, bundlerEPs, passed, failed>>

\* balanceOf(userOp.sender) answers or fails
StepPfBal(t) ==
    /\ tasks[t].pc = "pf_bal"
    /\ \E ok \in BOOLEAN, deposit \in Deposits :
        LET cur == [tasks[t] EXCEPT !.rdBal = TRUE]
        IN tasks' = [tasks EXCEPT ![t] =
               IF ~ok
               THEN [cur EXCEPT !.pc = "done",
                                !.out = PrefundCatch(gen, "balanceOf failed", TRUE)]
               ELSE [cur EXCEPT !.pc = "done", !.out = OkTrue,
                                !.fund = PrefundData(cur.userOp, deposit)]]
    /\ UNCHANGED <<gen, sdk, cache, bundlerEPs, passed, failed>>

\* SpecPrefund: preFund calls, one after another
NextPrefund ==
        \/ \E i \in Instances, op \in PrefundOps : CallPrefund(MainTask, i, op)
        \/ StepPfCfg(MainTask)
        \/ StepPfEpc(MainTask)
        \/ StepPfBal(MainTask)
        \/ CfgNext(MainTask)

SpecPrefund == InitCall /\ [][NextPrefund]_vars

(* --------------------------- fromTransaction --------------------------- *)
\* TypeGuard.onlyBytes: 0x followed by whole bytes of hex digits
onlyBytes(b) ==
    /\ Len(b) >= 2 /\ SubSeq(b, 1, 2) = <<"0", "x">>
    /\ Len(b) % 2 = 0
    /\ \A j \in 3..Len(b) : \E d \in DOMAIN HexDigits : HexDigits[d] = Lower(b[j])

BadBytes == <<"0", "x", "g", "g">>
TxData == <<"0", "x", "a", "9">>

\* a Transaction: to, and optional value, data and gasLimit
Transaction(to, value, data, gasLimit) ==
    [to |-> to, value |-> value, data |-> data, gasLimit |-> gasLimit]

\* the transactions callers hand in: nothing but `to`; a zero value; a
\* nonzero value; a malformed `to`; malformed `data`
Transactions ==
    {Transaction(OtherAddr, None, None, None),
     Transaction(OtherAddr, Some(Num(0)), Some(TxData), Some(Num(3))),
     Transaction(HookA, Some(Str(Hex(5))), Some(EmptyBytes), Some(Str(Hex(4)))),
     Transaction(BadAddr, None, None, Some(Num(3))),
     Transaction(OtherAddr, None, Some(BadBytes), Some(Num(4)))}

MaxTxs == 2
TxLists == UNION {[1..n -> Transactions] : n \in 0..MaxTxs}

\* the fee arguments of fromTransaction, as the strings callers pass
ExecMaxFee == Str(<<"0", "x", "0", "2">>)
ExecMaxPriorityFee == Str(<<"0", "x", "0", "1">>)

\* mutant: the sender is not validated
ExecuteValidation_NoFrom(from, txs) ==
    IF Len(txs) = 0 THEN "txs.length === 0" ELSE ""

\* the two checks at the head of fromTransaction; "" when they pass
ExecuteValidation(from, txs) ==
    IF Len(txs) = 0 THEN "txs.length === 0"
    ELSE IF ~onlyAddress(from) THEN "invalid from"
    ELSE ""

\* the loop over tx.gasLimit: the first undefined one zeroes the total
RECURSIVE SumGasLimit(_, _)
SumGasLimit(txs, acc) ==
    IF Len(txs) = 0 THEN acc
    ELSE IF Head(txs).gasLimit = None THEN 0
    ELSE SumGasLimit(Tail(txs), acc + BigInt(Head(txs).gasLimit[1]))

\* mutant: an odd total is left odd
ToEven_Keep(n) == n

\* odd number -> even number
ToEven(n) == IF n % 2 = 1 THEN n + 1 ELSE n

\* _value and _data of one transaction
ValueOf(tx) == IF tx.value = None THEN Hex(0) ELSE Hex(BigInt(tx.value[1]))
DataOf(tx) == IF tx.data = None THEN EmptyBytes ELSE tx.data[1]

\* the transaction is rejected by the encoding loop
TxInvalid(tx) == ~onlyAddress(tx.to) \/ ~onlyBytes(DataOf(tx))

\* mutant: only the first transaction is validated
TxCheck_FirstOnly(txs) ==
    LET bad == {j \in DOMAIN txs : j = 1 /\ TxInvalid(txs[j])}
    IN IF bad = {} THEN ""
       ELSE IF ~onlyAddress(txs[1].to) THEN "invalid to" ELSE "invalid data"

\* the validation inside the encoding loop, transaction by transaction: the
\* first transaction it rejects ends the call, `to` being looked at before
\* `data`; "" when every `to` and `data` is well formed
TxCheck(txs) ==
    LET bad == {j \in DOMAIN txs : TxInvalid(txs[j])}
    IN IF bad = {} THEN ""
       ELSE LET first == CHOOSE j \in bad : \A k \in bad : j <= k
            IN IF ~onlyAddress(txs[first].to) THEN "invalid to" ELSE "invalid data"

\* four-byte selectors, one per function signature (stand-ins for the
\* values ethers derives from the ABI)
Selector(fn) ==
    CASE fn = "execute" -> <<"b", "6", "1", "d", "2", "7", "f", "6">>
      [] fn = "initialize" -> <<"1", "0", "0", "0", "0", "0", "0", "1">>
      [] fn = "createWallet" -> <<"c", "0", "0", "0", "0", "0", "0", "2">>
      [] fn = "executeBatch(address[],bytes[])" -> <<"1", "8", "d", "f", "b", "3", "c", "7">>
      [] fn = "executeBatch(address[],uint256[],bytes[])"
            -> <<"4", "7", "e", "1", "d", "a", "2", "a">>

\* abi.encodeFunctionData(fn, args): the selector, then the arguments
encodeFunctionData(fn, args) == <<"0", "x">> \o Selector(fn) \o Concat(args)

\* the arrays to, value and data of the loop, as encoded arguments
ToArg(txs) == Concat([j \in DOMAIN txs |-> toLowerCase(txs[j].to)])
ValueArg(txs) == Concat([j \in DOMAIN txs |-> Body(ValueOf(txs[j]))])
DataArg(txs) == Concat([j \in DOMAIN txs |-> Body(DataOf(txs[j]))])

hasValue(txs) == \E j \in DOMAIN txs : ValueOf(txs[j]) # Hex(0)

\* mutant: a batch is always encoded without values
CallDataOf_NeverValues(txs) ==
    IF Len(txs) > 1
    THEN encodeFunctionData("executeBatch(address[],bytes[])", <<ToArg(txs), DataArg(txs)>>)
    ELSE encodeFunctionData("execute", <<ToArg(txs), ValueArg(txs), DataArg(txs)>>)

\* the choice among the three encodings
CallDataOf(txs) ==
    IF Len(txs) > 1
    THEN IF hasValue(txs)
         THEN encodeFunctionData("executeBatch(address[],uint256[],bytes[])",
                                 <<ToArg(txs), ValueArg(txs), DataArg(txs)>>)
         ELSE encodeFunctionData("executeBatch(address[],bytes[])",
                                 <<ToArg(txs), DataArg(txs)>>)
    ELSE encodeFunctionData("execute", <<ToArg(txs), ValueArg(txs), DataArg(txs)>>)

\* the operation fromTransaction returns
ExecuteOp(from, txs, nonce, callGasLimit) ==
    [sender |-> from, nonce |-> Str(nonce), initCode |-> EmptyBytes,
     callData |-> CallDataOf(txs),
     callGasLimit |-> Str(Hex(callGasLimit)),
     verificationGasLimit |-> Num(0), preVerificationGas |-> Num(0),
     maxFeePerGas |-> Str(Hex(BigInt(ExecMaxFee))),
     maxPriorityFeePerGas |-> Str(Hex(BigInt(ExecMaxPriorityFee))),
     paymasterAndData |-> EmptyBytes, signature |-> EmptyBytes]

\* `${walletAddress}-${chainId}`
DeployedKey(walletAddress, chainId) == <<"deployed", walletAddress, chainId>>

\* getNonce begins: getEntryPointContract resolves the config unless the
\* instance holds the contract already
ToGetNonce(t) ==
    IF sdk[t.inst].epc = None
    THEN [t EXCEPT !.pc = "cfg_enter", !.cont = "ex_epc"]
    ELSE [t EXCEPT !.pc = "ex_nonce"]

\* fromTransaction(maxFeePerGas, maxPriorityFeePerGas, from, txs) up to its
\* first await, walletDeployed(from)
CallExecute(t, i, from, txs) ==
    /\ tasks[t].pc = "idle"
    /\ gen = "result"
    /\ LET msg == ExecuteValidation(from, txs)
           t0 == [IdleTask EXCEPT !.op = "execute", !.inst = i, !.from = from, !.txs = txs]
       IN tasks' = [tasks EXCEPT ![t] =
              IF msg # "" THEN [t0 EXCEPT !.pc = "done", !.out = Err(msg)]
              ELSE [t0 EXCEPT !.pc = "cfg_enter", !.cont = "ex_wd"]]
    /\ UNCHANGED <<gen, sdk, cache, bundlerEPs, passed, failed>>

\* walletDeployed: its getOnChainConfig has returned; a cached `true`
\* answers without reading the code
StepExWd(t) ==
    /\ tasks[t].pc = "ex_wd"
    /\ LET cur == tasks[t]
           r == cur.res
       IN tasks' = [tasks EXCEPT ![t] =
              IF r.kind = "throw" THEN [cur EXCEPT !.pc = "done", !.out = r]
              ELSE IF r.kind = "err" THEN [cur EXCEPT !.pc = "done", !.out = Err(r.msg)]
              ELSE IF CacheGet(cache, DeployedKey(cur.from, r.val.chainId), FALSE)
                   THEN ToGetNonce([cur EXCEPT !.cfgOk = TRUE, !.hadDep = TRUE,
                                               !.depKey = DeployedKey(cur.from, r.val.chainId)])
              ELSE [cur EXCEPT !.cfgOk = TRUE, !.pc = "ex_code",
                               !.depKey = DeployedKey(cur.from, r.val.chainId)]]
    /\ UNCHANGED <<gen, sdk, cache, bundlerEPs, passed, failed>>

\* mutant: whatever the code read says is cached
RecordDeployed_Always(c, key, deployed) == CacheSet(c, key, deployed)

\* if (deployed) StorageCache.getInstance().set(key, true)
RecordDeployed(c, key, deployed) == IF deployed THEN CacheSet(c, key, TRUE) ELSE c

\* provider.getCode(walletAddress) answers "0x", code, or fails
StepExCode(t) ==
    /\ tasks[t].pc = "ex_code"
    /\ \E answer \in {"fail", "0x", "code"} :
        LET cur == [tasks[t] EXCEPT !.rdCode = TRUE, !.codeAns = answer]
        IN /\ tasks' = [tasks EXCEPT ![t] =
                  IF answer = "fail"
                  THEN [cur EXCEPT !.pc = "done", !.out = Err("getCode failed")]
                  ELSE ToGetNonce(cur)]
           /\ cache' = IF answer = "fail" THEN cache
                       ELSE RecordDeployed(cache, DeployedKey(cur.from, cur.res.val.chainId),
                                           answer # "0x")
    /\ UNCHANGED <<gen, sdk, bundlerEPs, passed, failed>>

\* getEntryPointContract inside getNonce: its getOnChainConfig has returned
StepExEpc(t) ==
    /\ tasks[t].pc = "ex_epc"
    /\ LET cur == tasks[t]
           r == cur.res
       IN /\ tasks' = [tasks EXCEPT ![t] =
                 IF r.kind = "throw" THEN [cur EXCEPT !.pc = "done", !.out = r]
                 ELSE IF r.kind = "err" THEN [cur EXCEPT !.pc = "done", !.out = Err(r.msg)]
                 ELSE [cur EXCEPT !.pc = "ex_nonce"]]
          /\ sdk' = IF r.kind = "ok"
                    THEN [sdk EXCEPT ![cur.inst].epc = Some(r.val.entryPoint)]
                    ELSE sdk
    /\ UNCHANGED <<gen, cache, bundlerEPs, passed, failed>>

\* EntryPoint.getNonce(from, key) answers or fails; then the gas limit, the
\* calldata and the operation are put together
StepExNonce(t) ==
    /\ tasks[t].pc = "ex_nonce"
    /\ \E ok \in BOOLEAN, n \in {0, 1} :
        LET cur == [tasks[t] EXCEPT !.rdNonce = TRUE]
            callGasLimit == ToEven(SumGasLimit(cur.txs, 0))
            msg == TxCheck(cur.txs)
            got == [cur EXCEPT !.nonce = Some(Hex(n))]
        IN tasks' = [tasks EXCEPT ![t] =
               IF ~ok THEN [cur EXCEPT !.pc = "done", !.out = Err("getNonce failed")]
               ELSE IF msg # "" THEN [got EXCEPT !.pc = "done", !.out = Err(msg)]
               ELSE [got EXCEPT !.pc = "done", !.out = OkTrue,
                                !.userOp = ExecuteOp(cur.from, cur.txs, Hex(n), callGasLimit)]]
    /\ UNCHANGED <<gen, sdk, cache, bundlerEPs, passed, failed>>

\* SpecExecute: fromTransaction calls, one after another, on the generation
\* that has the method; the providers are on a valid chain, the bundler
\* lists the entry point or nothing
InitExecute ==
    /\ InitWith({ChainOne}, {<< >>, <<toLowerCase(EntryPointAddr)>>})
    /\ gen = "result"

NextExecute ==
        \/ \E i \in Instances, from \in {WalletAddr, BadAddr}, txs \in TxLists :
              CallExecute(MainTask, i, from, txs)
        \/ StepExWd(MainTask)
        \/ StepExCode(MainTask)
        \/ StepExEpc(MainTask)
        \/ StepExNonce(MainTask)
        \/ CfgNext(MainTask)

SpecExecute == InitExecute /\ [][NextExecute]_vars

(* ------------------- createUnsignedDeployWalletUserOp ------------------ *)
\* the instance's module addresses
CallbackHandlerAddr == <<"A", "a">>
KeyStoreModuleAddr == <<"B", "b">>
SecurityControlModuleAddr == <<"C", "c">>

days == 86400
defalutInitialGuardianSafePeriod == 2 * days
preVerificationGasDeploy == 10000000

\* Hex.paddingZero(value, 32): value left-padded with zeros to a word; a
\* word is WordLen hex digits at model scale
WordLen == 8
paddingZero(b) ==
    <<"0", "x">> \o [j \in 1..(WordLen - Len(Body(b))) |-> "0"] \o Body(b)

\* the inputs: initial keys and a guardian hash (words), caller calldata
InitialKey == <<"0", "x", "1", "2">>
InitialGuardianHash == paddingZero(<<"0", "x", "9", "9">>)
DeployArgs ==
    {[index |-> ix, initialKey |-> InitialKey, initialGuardianHash |-> InitialGuardianHash,
      callData |-> cd, initialGuardianSafePeriod |-> sp] :
        ix \in {0, 1}, cd \in {EmptyBytes, TxData, BadBytes}, sp \in {None, Some(1)}}

\* new ethers.AbiCoder().encode(["bytes32", "bytes32", "uint64"], [...])
keyStoreInitData(initialKey, initialGuardianHash, period) ==
    <<"0", "x">> \o Body(paddingZero(initialKey)) \o Body(initialGuardianHash)
        \o Body(paddingZero(Hex(period)))

\* initialGuardianSafePeriod, defaulted when the caller leaves it out
SafePeriodOf(a) ==
    IF a.initialGuardianSafePeriod = None
    THEN defalutInitialGuardianSafePeriod
    ELSE a.initialGuardianSafePeriod[1]

\* mutant: the security-control delay follows the caller's safe period
securityControlModuleAndData_CallerPeriod(a) ==
    toLowerCase(SecurityControlModuleAddr \o Body(paddingZero(Hex(SafePeriodOf(a)))))

\* securityControlModuleAddress + paddingZero(defalutInitialGuardianSafePeriod)
securityControlModuleAndData(a) ==
    toLowerCase(SecurityControlModuleAddr
        \o Body(paddingZero(Hex(defalutInitialGuardianSafePeriod))))

\* keyStoreModuleAddress + encode(initialKey, initialGuardianHash, period)
keyStoreModuleAndData(a) ==
    toLowerCase(KeyStoreModuleAddr
        \o Body(keyStoreInitData(a.initialKey, a.initialGuardianHash, SafePeriodOf(a))))

\* the arguments of initialize(anOwner, defalutCallbackHandler, modules,
\* plugins)
InitializeArgs(a) ==
    [anOwner |-> a.initialKey, defalutCallbackHandler |-> CallbackHandlerAddr,
     modules |-> <<securityControlModuleAndData(a), keyStoreModuleAndData(a)>>,
     plugins |-> <<>>]

\* the string initializeData returns: the encoding of the initialize call
initializeData(a) ==
    LET args == InitializeArgs(a)
    IN encodeFunctionData("initialize",
           <<Body(args.anOwner), toLowerCase(args.defalutCallbackHandler)>>
               \o args.modules \o args.plugins)

\* `${factory}${encode createWallet(initializer, salt) without 0x}`.toLowerCase()
InitCodeOf(factory, a) ==
    <<"0", "x">> \o toLowerCase(factory
        \o Body(encodeFunctionData("createWallet",
                   <<Body(initializeData(a)), Body(paddingZero(Hex(a.index)))>>)))

\* mutant: the deploy floor is left out
DeployOp_NoFloor(sender, initCode, callData) ==
    [sender |-> sender, nonce |-> Num(0), initCode |-> initCode, callData |-> callData,
     callGasLimit |-> Num(0), verificationGasLimit |-> Num(0),
     preVerificationGas |-> Num(0),
     maxFeePerGas |-> Num(0), maxPriorityFeePerGas |-> Num(0),
     paymasterAndData |-> EmptyBytes, signature |-> EmptyBytes]

\* the operation createUnsignedDeployWalletUserOp returns
DeployOp(sender, initCode, callData) ==
    [sender |-> sender, nonce |-> Num(0), initCode |-> initCode, callData |-> callData,
     callGasLimit |-> Num(0), verificationGasLimit |-> Num(0),
     preVerificationGas |-> Num(preVerificationGasDeploy),
     maxFeePerGas |-> Num(0), maxPriorityFeePerGas |-> Num(0),
     paymasterAndData |-> EmptyBytes, signature |-> EmptyBytes]

\* TypeGuard.onlyBytes(callData) rejects: a failure result in the result
\* generation, an exception in the legacy one
DeployReject(g) == IF g = "result" THEN Err("invalid bytes") ELSE Throw("invalid bytes")

\* a failed config resolution inside initializeData: the result generation
\* hands the failure result on, an exception propagates
DeployFail(r) == IF r.kind = "err" THEN Err(r.msg) ELSE r

\* createUnsignedDeployWalletUserOp up to the first await, the
\* getOnChainConfig of initializeData
CallDeploy(t, i, a) ==
    /\ tasks[t].pc = "idle"
    /\ LET t0 == [IdleTask EXCEPT !.op = "deploy", !.inst = i, !.dargs = a]
       IN tasks' = [tasks EXCEPT ![t] =
              IF ~onlyBytes(a.callData)
              THEN [t0 EXCEPT !.pc = "done", !.out = DeployReject(gen)]
              ELSE [t0 EXCEPT !.pc = "cfg_enter", !.cont = "dp_init"]]
    /\ UNCHANGED <<gen, sdk, cache, bundlerEPs, passed, failed>>

\* initializeData has its config: the init code is put together, then
\* calcWalletAddress calls initializeData again
StepDpInit(t) ==
    /\ tasks[t].pc = "dp_init"
    /\ LET cur == tasks[t]
           r == cur.res
       IN tasks' = [tasks EXCEPT ![t] =
              IF r.kind # "ok" THEN [cur EXCEPT !.pc = "done", !.out = DeployFail(r)]
              ELSE [cur EXCEPT !.cfgOk = TRUE, !.initArgs = InitializeArgs(cur.dargs),
                               !.initCode = InitCodeOf(sdk[cur.inst].factory, cur.dargs),
                               !.pc = "cfg_enter", !.cont = "dp_calc"]]
    /\ UNCHANGED <<gen, sdk, cache, bundlerEPs, passed, failed>>

\* calcWalletAddress: its initializeData has its config
StepDpCalc(t) ==
    /\ tasks[t].pc = "dp_calc"
    /\ LET cur == tasks[t]
           r == cur.res
       IN tasks' = [tasks EXCEPT ![t] =
              IF r.kind # "ok" THEN [cur EXCEPT !.pc = "done", !.out = DeployFail(r)]
              ELSE [cur EXCEPT !.pc = "dp_addr", !.calcArgs = InitializeArgs(cur.dargs)]]
    /\ UNCHANGED <<gen, sdk, cache, bundlerEPs, passed, failed>>

\* factory.getWalletAddress(initializer, salt) answers or fails (no catch
\* around it in either generation)
StepDpAddr(t) ==
    /\ tasks[t].pc = "dp_addr"
    /\ \E ok \in BOOLEAN, sender \in {WalletAddr, OtherAddr} :
        LET cur == [tasks[t] EXCEPT !.rdAddr = TRUE]
        IN tasks' = [tasks EXCEPT ![t] =
               IF ~ok
               THEN [cur EXCEPT !.pc = "done", !.out = Throw("getWalletAddress failed")]
               ELSE [cur EXCEPT !.pc = "done", !.out = OkTrue,
                                !.userOp = DeployOp(sender, cur.initCode,
                                                    cur.dargs.callData)]]
    /\ UNCHANGED <<gen, sdk, cache, bundlerEPs, passed, failed>>

\* SpecDeploy: createUnsignedDeployWalletUserOp calls, one after another
NextDeploy ==
        \/ \E i \in Instances, a \in DeployArgs : CallDeploy(MainTask, i, a)
        \/ StepDpInit(MainTask)
        \/ StepDpCalc(MainTask)
        \/ StepDpAddr(MainTask)
        \/ CfgNext(MainTask)

SpecDeploy == InitCall /\ [][NextDeploy]_vars

(* -------------------------- packUserOpSignature ------------------------ *)
\* the signatures and validation data callers hand to packUserOpSignature
PackInputs ==
    {[signature |-> sg, validationData |-> SemiValidationData, hook |-> h] :
        sg \in {UserSig, SemiSig},
        h \in {None} \cup {Some([sender |-> x, inputData |-> HookInput]) :
                              x \in {WalletAddr, BadAddr}}}

\* an exception inside packUserOpSignature's chain read: guardHookList of
\* the result generation catches it, the legacy one has no catch
PackReadFailure(g) ==
    IF g = "result" THEN Err("listPlugin failed") ELSE Throw("listPlugin failed")

\* packUserOpSignature(signature, validationData, guardHookInputData) up to
\* its only await, the listPlugin read made when guard-hook input is given
CallPack(t, i, a) ==
    /\ tasks[t].pc = "idle"
    /\ LET t0 == [IdleTask EXCEPT !.op = "pack", !.inst = i, !.sig0 = a.signature,
                                  !.vd0 = a.validationData, !.gh = a.hook]
       IN tasks' = [tasks EXCEPT ![t] =
              IF a.hook = None
              THEN [t0 EXCEPT !.pc = "done", !.out = OkTrue,
                              !.packed = packSignature(a.signature, a.validationData, None)]
              ELSE IF ~onlyAddress(a.hook[1].sender)
              THEN [t0 EXCEPT !.pc = "done", !.packFail = TRUE,
                              !.out = Throw("invalid sender")]
              ELSE [t0 EXCEPT !.pc = "pk_hooks"]]
    /\ UNCHANGED <<gen, sdk, cache, bundlerEPs, passed, failed>>

\* listPlugin(1) answers or fails; the list goes into the hook input data
\* and the signature is packed
StepPkHooks(t) ==
    /\ tasks[t].pc = "pk_hooks"
    /\ \E ok \in BOOLEAN, hooks \in HookLists :
        LET cur == tasks[t]
            hd == HookInputDataOf(hooks, cur.gh[1].inputData)
        IN tasks' = [tasks EXCEPT ![t] =
               IF ~ok
               THEN [cur EXCEPT !.pc = "done", !.packFail = TRUE,
                                !.out = PackReadFailure(gen)]
               ELSE [cur EXCEPT !.pc = "done", !.out = OkTrue,
                                !.hooksRead = Some(hooks), !.handed = hd,
                                !.packed = packSignature(cur.sig0, cur.vd0, hd)]]
    /\ UNCHANGED <<gen, sdk, cache, bundlerEPs, passed, failed>>

\* SpecPack: packUserOpSignature calls, one after another
NextPack ==
        \/ \E i \in Instances, a \in PackInputs : CallPack(MainTask, i, a)
        \/ StepPkHooks(MainTask)
        \/ Finish(MainTask)

SpecPack == InitCall /\ [][NextPack]_vars

(* ------------------------- DeployFactory.deploy ------------------------ *)
\* the singleton (CREATE2) factory the DeployFactory was constructed with
SingletonFactoryAddr == <<"C", "e">>

\* bytes32_zero, and the salts callers pass: a word, a short string, a word
\* with a letter that is no hex digit, the empty string
bytes32_zero == paddingZero(<<"0", "x">>)
SaltWord == paddingZero(<<"0", "x", "5", "a">>)
SaltShort == <<"0", "x", "5", "a">>
SaltNotHex == <<"0", "x", "5", "a", "5", "a", "5", "a", "5", "g">>
SaltEmpty == <<>>

\* /^0x[0-9a-fA-F]{64}$/ with a word of WordLen digits
isBytes32(salt) ==
    /\ Len(salt) = 2 + WordLen /\ SubSeq(salt, 1, 2) = <<"0", "x">>
    /\ \A j \in 3..Len(salt) : \E d \in DOMAIN HexDigits : HexDigits[d] = Lower(salt[j])

\* the arguments of deploy: a salt left out is None
FactoryArgs ==
    {[logicContractAddress |-> l, salt |-> sa, ver |-> v] :
        l \in {LogicAddr, OtherAddr},
        sa \in {None, Some(SaltWord), Some(SaltShort), Some(SaltNotHex), Some(SaltEmpty)},
        v \in {1, 2}}

\* salt = salt || bytes32_zero: a salt left out and the empty string are both
\* falsy and replaced
SaltOf(a) ==
    IF a.salt = None THEN bytes32_zero
    ELSE IF a.salt[1] = SaltEmpty THEN bytes32_zero
    ELSE a.salt[1]

\* mutant: the salt is not checked
FactoryValidation_NoSalt(a) ==
    IF a.ver # 1 THEN "version not support" ELSE ""

\* the two checks of getFactory; "" when they pass
FactoryValidation(a) ==
    IF a.ver # 1 THEN "version not support"
    ELSE IF ~isBytes32(SaltOf(a)) THEN "salt is not bytes32"
    ELSE ""

\* getCreate2Address(singletonFactory, salt, keccak256(initCodeWithArgs)):
\* an address fixed by the singleton factory, the salt and the logic address
factoryAddressOf(a) ==
    <<"0", "x">> \o toLowerCase(SingletonFactoryAddr \o Body(SaltOf(a))
                                   \o a.logicContractAddress)

\* deploy(logicContractAddress, etherProvider, signer, salt, ver) up to its
\* first await, the code read at the factory address
CallFactoryDeploy(t, a) ==
    /\ tasks[t].pc = "idle"
    /\ LET msg == FactoryValidation(a)
           t0 == [IdleTask EXCEPT !.op = "factory", !.fargs = a]
       IN tasks' = [tasks EXCEPT ![t] =
              IF msg # "" THEN [t0 EXCEPT !.pc = "done", !.out = Throw(msg)]
              ELSE [t0 EXCEPT !.pc = "df_code", !.addr = factoryAddressOf(a)]]
    /\ UNCHANGED <<gen, sdk, cache, bundlerEPs, passed, failed>>

\* etherProvider.getCode(factoryAddress) answers before any transaction
StepDfCode(t) ==
    /\ tasks[t].pc = "df_code"
    /\ \E answer \in {"fail", "0x", "code"} :
        LET cur == [tasks[t] EXCEPT !.code1 = answer]
        IN tasks' = [tasks EXCEPT ![t] =
               IF answer = "fail"
               THEN [cur EXCEPT !.pc = "done", !.out = Throw("getCode failed")]
               ELSE IF answer = "code" THEN [cur EXCEPT !.pc = "done", !.out = OkTrue, !.retAddr = cur.addr]
               ELSE [cur EXCEPT !.pc = "df_send"]]
    /\ UNCHANGED <<gen, sdk, cache, bundlerEPs, passed, failed>>

\* signer.sendTransaction(tx) accepts the deploy transaction or rejects it
StepDfSend(t) ==
    /\ tasks[t].pc = "df_send"
    /\ \E ok \in BOOLEAN :
        LET cur == [tasks[t] EXCEPT !.sent = @ + 1]
        IN tasks' = [tasks EXCEPT ![t] =
               IF ~ok
               THEN [cur EXCEPT !.pc = "done", !.out = Throw("sendTransaction failed")]
               ELSE [cur EXCEPT !.pc = "df_wait"]]
    /\ UNCHANGED <<gen, sdk, cache, bundlerEPs, passed, failed>>

\* signedTx.wait() returns, or rejects for a reverted transaction
StepDfWait(t) ==
    /\ tasks[t].pc = "df_wait"
    /\ \E ok \in BOOLEAN :
        LET cur == tasks[t]
        IN tasks' = [tasks EXCEPT ![t] =
               IF ~ok THEN [cur EXCEPT !.pc = "done", !.out = Throw("wait failed")]
               ELSE [cur EXCEPT !.waited = TRUE, !.pc = "df_check"]]
    /\ UNCHANGED <<gen, sdk, cache, bundlerEPs, passed, failed>>

\* the code is read again after the transaction
StepDfCheck(t) ==
    /\ tasks[t].pc = "df_check"
    /\ \E answer \in {"fail", "0x", "code"} :
        LET cur == [tasks[t] EXCEPT !.code2 = answer]
        IN tasks' = [tasks EXCEPT ![t] =
               IF answer = "fail"
               THEN [cur EXCEPT !.pc = "done", !.out = Throw("getCode failed")]
               ELSE IF answer = "0x"
               THEN [cur EXCEPT !.pc = "done", !.out = Throw("deploy factory failed")]
               ELSE [cur EXCEPT !.pc = "done", !.out = OkTrue, !.retAddr = cur.addr]]
    /\ UNCHANGED <<gen, sdk, cache, bundlerEPs, passed, failed>>

\* SpecFactory: DeployFactory.deploy calls, one after another
NextFactory ==
        \/ \E a \in FactoryArgs : CallFactoryDeploy(MainTask, a)
        \/ StepDfCode(MainTask)
        \/ StepDfSend(MainTask)
        \/ StepDfWait(MainTask)
        \/ StepDfCheck(MainTask)
        \/ Finish(MainTask)

SpecFactory == InitCall /\ [][NextFactory]_vars

(* --------------------- concurrent getOnChainConfig --------------------- *)
\* SpecConcurrent: every task makes one getOnChainConfig call, on any
\* instance, and the calls interleave at their awaits; the instances share
\* the factory and one provider chain, so that all calls are for one key
InitConcurrent == InitWith({ChainOne}, {<< >>, <<toLowerCase(EntryPointAddr)>>})

NextConcurrent ==
    \E t \in TaskIds :
        \/ \E i \in Instances : CallResolve(t, i)
        \/ StepCfgEnter(t)
        \/ StepCfgNet(t)
        \/ StepCfgImpl(t)
        \/ StepCfgEp(t)
        \/ StepCfgBnet(t)
        \/ StepCfgSup(t)

SpecConcurrent == InitConcurrent /\ [][NextConcurrent]_vars

(* ======================== properties ================================== *)
ValidChainIds == {ChainOne, ChainMaxSafe}

\* the list names the address, letter case aside
Supports(list, addr) == \E j \in DOMAIN list : toLowerCase(list[j]) = toLowerCase(addr)

ResolveDone(t) == tasks[t].op = "resolve" /\ tasks[t].pc = "done"

\* C1: a key is in the config cache only if a resolution for it passed every
\* check, and a resolution that returns a failure leaves no entry the cache
\* did not hold when the call began.
C1_CachedOnlyAfterAllChecks ==
    /\ \A k \in DOMAIN cache : k \in passed
    /\ \A t \in TaskIds :
        (ResolveDone(t) /\ tasks[t].out.kind # "ok" /\ KeyOf(tasks[t].inst) \in DOMAIN cache)
            => tasks[t].hadKey

\* C2: a resolution that follows a failed one for the same key and succeeds
\* has read walletImpl() and entryPoint() again and run every check again.
C2_ReResolveAfterFailure ==
    \A t \in TaskIds :
        (ResolveDone(t) /\ tasks[t].afterFail /\ tasks[t].out.kind = "ok")
            => /\ tasks[t].rdImpl /\ tasks[t].rdEp
               /\ tasks[t].rdBnet /\ tasks[t].rdSup

\* C3: no resolution reports success with an entry point that the bundler's
\* supported-entry-points list does not name.
C3_NoSuccessUnsupportedEntryPoint ==
    \A t \in TaskIds :
        (ResolveDone(t) /\ tasks[t].out.kind = "ok")
            => Supports(bundlerEPs, tasks[t].out.val.entryPoint)

\* C4 as stated: a resolution that starts with its key cached returns the
\* cached value and issues no chain read and no bundler call at all.
C4_CachedNoReadsAtAll ==
    \A t \in TaskIds :
        (ResolveDone(t) /\ tasks[t].hadKey)
            => /\ tasks[t].out = Ok(cache[KeyOf(tasks[t].inst)][1])
               /\ ~tasks[t].rdNet /\ ~tasks[t].rdImpl /\ ~tasks[t].rdEp
               /\ ~tasks[t].rdBnet /\ ~tasks[t].rdSup

\* C4 (amended): a resolution that starts with its key cached issues no
\* walletImpl/entryPoint read and no bundler call; it reads the provider's
\* chain id (to form the key) only in the result generation and only when the
\* instance has not itself returned a config before; it returns the cached
\* value unless that one read fails, in which case the read's fault is raised.
C4_CachedNoRevalidation ==
    \A t \in TaskIds :
        (ResolveDone(t) /\ tasks[t].hadKey)
            => /\ ~tasks[t].rdImpl /\ ~tasks[t].rdEp
               /\ ~tasks[t].rdBnet /\ ~tasks[t].rdSup /\ ~tasks[t].wrote
               /\ tasks[t].rdNet <=> (gen = "result" /\ ~tasks[t].hadMemo)
               /\ \/ tasks[t].out = Ok(cache[KeyOf(tasks[t].inst)][1])
                  \/ tasks[t].rdNet /\ tasks[t].out.kind = "throw"

\* a second instance (no _onChainConfig of its own) is served from the cache
C4_Witness ==
    \E t \in TaskIds :
        /\ ResolveDone(t) /\ tasks[t].hadKey /\ ~tasks[t].hadMemo
        /\ tasks[t].out.kind = "ok"
        /\ \E j \in Instances : j # tasks[t].inst /\ sdk[j].memo # None

\* C5: a config written to the cache carries a nonzero safe-integer chain id
\* equal to the provider's and to the bundler's chain id read in the same
\* resolution; an invalid or mismatching chain id fails with nothing written.
C5_CachedChainIdValid ==
    /\ \A k \in DOMAIN cache : cache[k][1].chainId \in ValidChainIds
    /\ \A t \in TaskIds :
        /\ tasks[t].wrote =>
              /\ tasks[t].cfg.chainId = sdk[tasks[t].inst].chain
              /\ tasks[t].cfg.chainId = tasks[t].bchain
              /\ tasks[t].cfg.chainId \in ValidChainIds
              /\ CacheGet(cache, KeyOf(tasks[t].inst), None) = Some(tasks[t].cfg)
        /\ (\/ tasks[t].rdNet /\ sdk[tasks[t].inst].chain \notin ValidChainIds
            \/ tasks[t].rdBnet /\ tasks[t].bchain \notin ValidChainIds
            \/ tasks[t].rdBnet /\ tasks[t].bchain # sdk[tasks[t].inst].chain)
              => /\ ~tasks[t].wrote
                 /\ tasks[t].res.kind \in {"err", "throw"}

\* a config with the largest safe chain id has been written
C5_Witness ==
    \E t \in TaskIds :
        /\ tasks[t].wrote /\ tasks[t].cfg.chainId = ChainMaxSafe
        /\ tasks[t].rdBnet /\ tasks[t].bchain = ChainMaxSafe

\* C6: a successful resolution returns a config whose chainId is the chain id
\* of the calling instance's own provider.
C6_ConfigOfOwnChain ==
    \A t \in TaskIds :
        (ResolveDone(t) /\ tasks[t].out.kind = "ok")
            => tasks[t].out.val.chainId = sdk[tasks[t].inst].chain

EstimateDone(t) == tasks[t].op = "estimate" /\ tasks[t].pc = "done"

\* C7: an operation whose signature is empty when estimateUserOperationGas is
\* called has an empty signature again when the call is over, however it ends.
C7_SignatureRestored ==
    \A t \in TaskIds :
        (EstimateDone(t) /\ tasks[t].op0.signature = EmptyBytes)
            => tasks[t].userOp.signature = EmptyBytes

\* the placeholder was installed and handed to the bundler, and the call
\* ended by a fault, by a failure and by a success
C7_Witness ==
    \E t \in TaskIds :
        /\ EstimateDone(t) /\ tasks[t].op0.signature = EmptyBytes
        /\ tasks[t].estCalled /\ tasks[t].sentSig # EmptyBytes
        /\ tasks[t].out.kind \in {"throw", "err"}

\* C8: after a successful estimation callGasLimit is unchanged when it was
\* odd at entry; when it was even it is the bundler's value, plus one when
\* that is odd.
C8_CallGasLimitParity ==
    \A t \in TaskIds :
        (EstimateDone(t) /\ tasks[t].out.kind = "ok")
            => LET before == tasks[t].op0.callGasLimit
                   reported == BigInt(tasks[t].est.callGasLimit)
                   after == tasks[t].userOp.callGasLimit
               IN IF BigInt(before) % 2 = 1 THEN after = before
                  ELSE /\ BigInt(after) % 2 = 0
                       /\ BigInt(after) \in {reported, reported + 1}
                       /\ reported % 2 = 0 => BigInt(after) = reported

\* C10: an operation with an empty signature reaches the bundler's estimate
\* endpoint with the placeholder signature installed, with or without
\* initCode, once validation and config resolution have passed.
C10_PlaceholderHandedToBundler ==
    \A t \in TaskIds :
        /\ (tasks[t].op = "estimate" /\ tasks[t].estCalled /\ tasks[t].semi)
              => tasks[t].sentSig # EmptyBytes
        /\ (EstimateDone(t) /\ tasks[t].semi /\ tasks[t].cfgOk /\ ~tasks[t].packFail)
              => tasks[t].estCalled

SendDone(t) == tasks[t].op = "send" /\ tasks[t].pc = "done"

\* C9: sendUserOperation reports success only when the bundler accepted the
\* operation and returned the locally computed hash (letter case aside); a
\* differing hash ends the call with the consistency fault, never success.
C9_NoSuccessOnHashMismatch ==
    \A t \in TaskIds :
        SendDone(t) =>
            /\ tasks[t].out.kind = "ok" =>
                  /\ tasks[t].accepted
                  /\ toLowerCase(tasks[t].bhash) = toLowerCase(tasks[t].lhash)
            /\ (tasks[t].accepted /\ tasks[t].lhash # <<>>
                  /\ toLowerCase(tasks[t].bhash) # toLowerCase(tasks[t].lhash))
                  => /\ tasks[t].out.kind \in {"throw", "err"}
                     /\ tasks[t].out.msg = "userOpHash !== userOPHashLocal"
                     /\ gen = "result" => tasks[t].out.kind = "throw"

\* the bundler returned a foreign hash and the call ended with the fault
C9_Witness ==
    \E t \in TaskIds :
        /\ SendDone(t) /\ tasks[t].accepted /\ tasks[t].bhash = OtherHash
        /\ tasks[t].lhash # <<>> /\ tasks[t].out.msg = "userOpHash !== userOPHashLocal"

\* C11: an expected failure is returned, never thrown: an estimation that ends
\* before the bundler is reached (config resolution failed on a chain read,
\* or the guard-hook sender is malformed) ends with a failure result.
C11_ExpectedFailureNotThrown ==
    \A t \in TaskIds :
        (EstimateDone(t) /\ ~tasks[t].estCalled) => tasks[t].out.kind # "throw"

\* C14: guard-hook input whose sender is not the operation's sender (letter
\* case aside), or given with an empty initCode, makes the estimation fail
\* with no bundler call, no config resolution and the operation untouched.
C14_GuardHookValidation ==
    \A t \in TaskIds :
        (/\ EstimateDone(t) /\ tasks[t].gh # None
         /\ \/ toLowerCase(tasks[t].gh[1].sender) # toLowerCase(tasks[t].op0.sender)
            \/ tasks[t].op0.initCode = EmptyBytes)
            => /\ tasks[t].out.kind = "err"
               /\ ~tasks[t].estCalled /\ ~tasks[t].cfgCalled
               /\ tasks[t].userOp = tasks[t].op0

\* a matching sender was given for an operation without initCode
C14_Witness ==
    \E t \in TaskIds :
        /\ EstimateDone(t) /\ tasks[t].gh # None
        /\ toLowerCase(tasks[t].gh[1].sender) = toLowerCase(tasks[t].op0.sender)
        /\ tasks[t].gh[1].sender # tasks[t].op0.sender
        /\ tasks[t].op0.initCode = EmptyBytes
        /\ tasks[t].out.kind = "err"

\* C15: after a successful estimation verificationGasLimit is the bundler's
\* value and preVerificationGas is the bundler's value plus the overhead
\* top-up, whatever the two fields held at entry.
C15_GasFieldsFromBundler ==
    \A t \in TaskIds :
        (EstimateDone(t) /\ tasks[t].out.kind = "ok")
            => /\ BigInt(tasks[t].userOp.verificationGasLimit)
                    = BigInt(tasks[t].est.verificationGasLimit)
               /\ BigInt(tasks[t].userOp.preVerificationGas)
                    = BigInt(tasks[t].est.preVerificationGas) + GasOverheadTopUp

\* a successful estimation of an operation whose gas fields held other,
\* nonzero values at entry
C15_Witness ==
    \E t \in TaskIds :
        /\ EstimateDone(t) /\ tasks[t].out.kind = "ok"
        /\ BigInt(tasks[t].op0.verificationGasLimit) \notin
               {0, BigInt(tasks[t].est.verificationGasLimit)}
        /\ BigInt(tasks[t].op0.preVerificationGas) \notin
               {0, BigInt(tasks[t].est.preVerificationGas)}

PrefundDone(t) == tasks[t].op = "prefund" /\ tasks[t].pc = "done"

\* C12: preFund of an operation whose maxFeePerGas, preVerificationGas or
\* verificationGasLimit is zero ends with the validation failure, whatever
\* callGasLimit and paymasterAndData are: it returns no figures and has read
\* neither the config nor the deposit.
C12_ZeroGasFieldRejected ==
    \A t \in TaskIds :
        (/\ PrefundDone(t)
         /\ \/ BigInt(tasks[t].op0.maxFeePerGas) = 0
            \/ BigInt(tasks[t].op0.preVerificationGas) = 0
            \/ BigInt(tasks[t].op0.verificationGasLimit) = 0)
            => /\ tasks[t].out.kind = (IF gen = "result" THEN "err" ELSE "throw")
               /\ tasks[t].out.msg
                    = "maxFeePerGas, preVerificationGas, verificationGasLimit must > 0"
               /\ tasks[t].fund = NoFund
               /\ ~tasks[t].rdBal /\ ~tasks[t].cfgCalled

\* rejected with a nonzero fee, a nonzero callGasLimit and a paymaster
C12_Witness ==
    \E t \in TaskIds :
        /\ PrefundDone(t) /\ tasks[t].out.kind # "ok"
        /\ BigInt(tasks[t].op0.maxFeePerGas) # 0
        /\ BigInt(tasks[t].op0.verificationGasLimit) = 0
        /\ BigInt(tasks[t].op0.callGasLimit) # 0
        /\ tasks[t].op0.paymasterAndData # EmptyBytes

\* C13: the figures preFund returns are prefund = (callGasLimit +
\* verificationGasLimit * m + preVerificationGas) * maxFeePerGas with m = 3
\* with a paymaster and 1 without, the deposit read from the entry point,
\* and missingFund = prefund - deposit when the deposit is smaller, else 0.
C13_PrefundFigures ==
    \A t \in TaskIds :
        (PrefundDone(t) /\ tasks[t].out.kind = "ok")
            => LET o == tasks[t].op0
                   m == IF o.paymasterAndData = EmptyBytes THEN 1 ELSE 3
                   prefund == BigInt(Str(tasks[t].fund.prefund))
                   deposit == BigInt(Str(tasks[t].fund.deposit))
                   missfund == BigInt(Str(tasks[t].fund.missfund))
               IN /\ prefund = (BigInt(o.callGasLimit) + BigInt(o.verificationGasLimit) * m
                                  + BigInt(o.preVerificationGas)) * BigInt(o.maxFeePerGas)
                  /\ deposit \in Deposits /\ tasks[t].rdBal
                  /\ missfund = IF deposit < prefund THEN prefund - deposit ELSE 0

\* figures returned with a paymaster and a deposit short of the prefund
C13_Witness ==
    \E t \in TaskIds :
        /\ PrefundDone(t) /\ tasks[t].out.kind = "ok"
        /\ tasks[t].op0.paymasterAndData # EmptyBytes
        /\ tasks[t].fund.deposit = Hex(9)
        /\ tasks[t].fund.missfund \notin {Hex(0), NoFund.missfund}

ExecuteDone(t) == tasks[t].op = "execute" /\ tasks[t].pc = "done"

\* the transactions' gas limits added up (every one supplied)
RECURSIVE GasLimitTotal(_)
GasLimitTotal(txs) ==
    IF Len(txs) = 0 THEN 0 ELSE BigInt(Head(txs).gasLimit[1]) + GasLimitTotal(Tail(txs))

\* C16: the callGasLimit of an operation built by fromTransaction is even:
\* the sum of the gas limits, plus one when the sum is odd, when every
\* transaction supplies one, and 0 when any transaction omits it.
C16_CallGasLimitEven ==
    \A t \in TaskIds :
        (ExecuteDone(t) /\ tasks[t].out.kind = "ok")
            => LET txs == tasks[t].txs
                   cgl == BigInt(tasks[t].userOp.callGasLimit)
                   total == GasLimitTotal(txs)
               IN /\ cgl % 2 = 0
                  /\ (\A j \in DOMAIN txs : txs[j].gasLimit # None)
                        => cgl = IF total % 2 = 1 THEN total + 1 ELSE total
                  /\ (\E j \in DOMAIN txs : txs[j].gasLimit = None) => cgl = 0

\* a transaction without a gas limit follows one that supplies a limit
C16_Witness ==
    \E t \in TaskIds :
        /\ ExecuteDone(t) /\ tasks[t].out.kind = "ok"
        /\ Len(tasks[t].txs) = 2
        /\ tasks[t].txs[1].gasLimit # None /\ tasks[t].txs[2].gasLimit = None
        /\ tasks[t].userOp.callGasLimit = Str(Hex(0))

\* C17: the calldata encoding follows from the shape of the batch: one
\* transaction is execute(to, value, data); several with a nonzero value are
\* the batch with values; several with only zero or omitted values are the
\* batch without values.
C17_EncodingByShape ==
    \A t \in TaskIds :
        (ExecuteDone(t) /\ tasks[t].out.kind = "ok")
            => LET txs == tasks[t].txs
                   cd == tasks[t].userOp.callData
                   nonzero == \E j \in DOMAIN txs :
                                  txs[j].value # None /\ BigInt(txs[j].value[1]) # 0
                   fn == IF Len(txs) = 1 THEN "execute"
                         ELSE IF nonzero
                              THEN "executeBatch(address[],uint256[],bytes[])"
                              ELSE "executeBatch(address[],bytes[])"
               IN /\ SubSeq(cd, 1, 10) = <<"0", "x">> \o Selector(fn)
                  /\ SubSeq(cd, 11, Len(cd))
                        = IF fn = "executeBatch(address[],bytes[])"
                          THEN ToArg(txs) \o DataArg(txs)
                          ELSE ToArg(txs) \o ValueArg(txs) \o DataArg(txs)

\* a batch whose first value is zero and whose second is not
C17_Witness ==
    \E t \in TaskIds :
        /\ ExecuteDone(t) /\ tasks[t].out.kind = "ok"
        /\ Len(tasks[t].txs) = 2
        /\ tasks[t].txs[1].value = Some(Num(0))
        /\ tasks[t].txs[2].value = Some(Str(Hex(5)))

\* C18: fromTransaction with an empty transaction list or a malformed sender
\* fails before any chain read: no config resolution, no getCode, no getNonce.
C18_FailsBeforeChainReads ==
    \A t \in TaskIds :
        (ExecuteDone(t) /\ (Len(tasks[t].txs) = 0 \/ tasks[t].from = BadAddr))
            => /\ tasks[t].out.kind = "err"
               /\ tasks[t].userOp = NoOp
               /\ ~tasks[t].cfgCalled /\ ~tasks[t].rdCode /\ ~tasks[t].rdNonce

\* a malformed sender with a well-formed transaction
C18_Witness ==
    \E t \in TaskIds :
        /\ ExecuteDone(t) /\ tasks[t].from = BadAddr
        /\ Len(tasks[t].txs) = 1 /\ TxCheck(tasks[t].txs) = ""
        /\ tasks[t].out.msg = "invalid from"

\* C19: fromTransaction returns no operation when any transaction, at any
\* position, has a malformed `to` or malformed `data`; once the chain reads
\* before the encoding have answered, the call returns the validation
\* failure.
C19_MalformedTxRejected ==
    \A t \in TaskIds :
        (/\ ExecuteDone(t)
         /\ \E j \in DOMAIN tasks[t].txs :
               \/ tasks[t].txs[j].to = BadAddr
               \/ tasks[t].txs[j].data = Some(BadBytes))
            => /\ tasks[t].out.kind # "ok"
               /\ tasks[t].userOp = NoOp
               /\ tasks[t].nonce # None
                     => /\ tasks[t].out.kind = "err"
                        /\ tasks[t].out.msg \in {"invalid to", "invalid data"}

\* the malformed transaction is the last one, after a well-formed one
C19_Witness ==
    \E t \in TaskIds :
        /\ ExecuteDone(t) /\ Len(tasks[t].txs) = 2
        /\ TxCheck(<<tasks[t].txs[1]>>) = ""
        /\ tasks[t].txs[2].data = Some(BadBytes)
        /\ tasks[t].out.msg = "invalid data"

DeployDone(t) == tasks[t].op = "deploy" /\ tasks[t].pc = "done"

\* C20: an operation returned by createUnsignedDeployWalletUserOp has
\* callGasLimit, verificationGasLimit, maxFeePerGas and maxPriorityFeePerGas
\* 0, preVerificationGas 10000000, nonce 0, empty paymasterAndData and
\* signature, the caller's callData, and an initCode that is longer than the
\* factory address and begins with it; malformed callData ends the call with
\* a failure before any chain read.
C20_DeployOpShape ==
    \A t \in TaskIds :
        DeployDone(t) =>
            LET o == tasks[t].userOp
                a == tasks[t].dargs
            IN /\ tasks[t].out.kind = "ok" =>
                    /\ BigInt(o.callGasLimit) = 0 /\ BigInt(o.verificationGasLimit) = 0
                    /\ BigInt(o.maxFeePerGas) = 0 /\ BigInt(o.maxPriorityFeePerGas) = 0
                    /\ BigInt(o.preVerificationGas) = 10000000
                    /\ BigInt(o.nonce) = 0
                    /\ o.paymasterAndData = EmptyBytes /\ o.signature = EmptyBytes
                    /\ o.callData = a.callData
                    /\ Len(o.initCode) > 2 + AddrLen
                    /\ SubSeq(o.initCode, 1, 2) = <<"0", "x">>
                    /\ SubSeq(o.initCode, 3, 2 + AddrLen)
                          = toLowerCase(sdk[tasks[t].inst].factory)
               /\ a.callData = BadBytes =>
                    /\ tasks[t].out.kind \in {"err", "throw"}
                    /\ tasks[t].userOp = NoOp
                    /\ ~tasks[t].cfgCalled /\ ~tasks[t].rdAddr

\* an operation was returned for caller calldata and a second index
C20_Witness ==
    \E t \in TaskIds :
        /\ DeployDone(t) /\ tasks[t].out.kind = "ok"
        /\ tasks[t].dargs.callData = TxData /\ tasks[t].dargs.index = 1
        /\ tasks[t].userOp.sender = WalletAddr

\* C23: one sendUserOperation call makes at most one eth_sendUserOperation
\* request; when the bundler answers with a failure the call returns that
\* failure, computes no local hash and leaves the operation as it was.
C23_SendOnceNoRetry ==
    \A t \in TaskIds :
        SendDone(t) =>
            /\ tasks[t].rpcCalls <= 1
            /\ tasks[t].rpc = "err" =>
                  /\ tasks[t].out = Err("bundler error")
                  /\ tasks[t].lhash = <<>>
                  /\ tasks[t].userOp = tasks[t].op0

\* the config resolved and the bundler rejected the operation
C23_Witness ==
    \E t \in TaskIds :
        /\ SendDone(t) /\ tasks[t].cfgOk
        /\ tasks[t].rpc = "err" /\ tasks[t].rpcCalls = 1
        /\ tasks[t].out.kind = "err"

\* C26: when the bundler's estimate endpoint answers with a failure,
\* estimateUserOperationGas returns that failure and callGasLimit,
\* verificationGasLimit and preVerificationGas are as they were at entry.
C26_FailedEstimateKeepsGas ==
    \A t \in TaskIds :
        (EstimateDone(t) /\ tasks[t].rpc = "err")
            => /\ tasks[t].out = Err("bundler error")
               /\ tasks[t].userOp.callGasLimit = tasks[t].op0.callGasLimit
               /\ tasks[t].userOp.verificationGasLimit = tasks[t].op0.verificationGasLimit
               /\ tasks[t].userOp.preVerificationGas = tasks[t].op0.preVerificationGas

\* the bundler rejected an operation whose gas fields were nonzero
C26_Witness ==
    \E t \in TaskIds :
        /\ EstimateDone(t) /\ tasks[t].rpc = "err" /\ tasks[t].estCalled
        /\ BigInt(tasks[t].op0.callGasLimit) # 0
        /\ BigInt(tasks[t].op0.preVerificationGas) # 0

PackDone(t) == tasks[t].op = "pack" /\ tasks[t].pc = "done"

\* C25: with guard-hook input, the hook list packed into the signature is
\* the sequence the listPlugin read returned, element by element; without
\* guard-hook input no list is read and no hook data is packed.
C25_HookListAsRead ==
    \A t \in TaskIds :
        (PackDone(t) /\ tasks[t].out.kind = "ok")
            => IF tasks[t].gh = None
               THEN /\ tasks[t].hooksRead = None /\ tasks[t].handed = None
                    /\ tasks[t].packed
                          = <<"0", "x">> \o Body(tasks[t].vd0) \o Body(tasks[t].sig0)
               ELSE /\ tasks[t].hooksRead # None
                    /\ tasks[t].handed[1].guardHooks = tasks[t].hooksRead[1]
                    /\ tasks[t].packed
                          = <<"0", "x">> \o Body(tasks[t].vd0) \o Body(tasks[t].sig0)
                               \o Concat(tasks[t].hooksRead[1])
                               \o Body(tasks[t].gh[1].inputData)

\* the read returned the same hook twice
C25_Witness ==
    \E t \in TaskIds :
        /\ PackDone(t) /\ tasks[t].out.kind = "ok"
        /\ tasks[t].hooksRead = Some(<<HookA, HookA>>)

\* C24: when the config resolution inside preFund fails, the failure preFund
\* ends with carries the message of the config-resolution error.
C24_PrefundCarriesConfigError ==
    \A t \in TaskIds :
        (PrefundDone(t) /\ tasks[t].cfgCalled /\ ~tasks[t].cfgOk)
            => /\ tasks[t].out.kind # "ok"
               /\ tasks[t].out.msg = tasks[t].res.msg

\* the walletDeployed check of the call got as far as its cache lookup
DeployedChecked(t) == ExecuteDone(t) /\ tasks[t].depKey # <<>>

\* C27: the wallet-deployed cache holds positive results only. A check that
\* finds no entry reads the code, and leaves an entry exactly when the read
\* returned non-empty code; a check that finds an entry reads no code.
C27_DeployedCachePositiveOnly ==
    /\ \A k \in DOMAIN cache : k[1] = "deployed" => cache[k] = TRUE
    /\ \A t \in TaskIds :
        DeployedChecked(t) =>
            /\ tasks[t].hadDep => (~tasks[t].rdCode /\ tasks[t].depKey \in DOMAIN cache)
            /\ ~tasks[t].hadDep =>
                  /\ tasks[t].rdCode
                  /\ tasks[t].depKey \in DOMAIN cache <=> tasks[t].codeAns = "code"

\* a check served from the cache, after earlier checks had to read the code
C27_Witness ==
    \E t \in TaskIds :
        /\ DeployedChecked(t) /\ tasks[t].hadDep /\ ~tasks[t].rdCode
        /\ tasks[t].out.kind = "ok"

\* the word holding the period p
PeriodWord(p) == Body(paddingZero(Hex(p)))

\* C28: in the initializer built for createUnsignedDeployWalletUserOp and
\* for calcWalletAddress the modules are the security-control module with
\* the default delay of 2 days, then the key-store module with the encoded
\* (key, guardian hash, caller's safe period); the plugin list is empty.
C28_InitializerModules ==
    \A t \in TaskIds :
        (DeployDone(t) /\ tasks[t].out.kind = "ok")
            => LET a == tasks[t].dargs
                   p == IF a.initialGuardianSafePeriod = None THEN 172800
                        ELSE a.initialGuardianSafePeriod[1]
                   expected ==
                       <<toLowerCase(SecurityControlModuleAddr \o PeriodWord(172800)),
                         toLowerCase(KeyStoreModuleAddr \o Body(paddingZero(a.initialKey))
                                        \o Body(a.initialGuardianHash) \o PeriodWord(p))>>
               IN /\ tasks[t].initArgs.modules = expected
                  /\ tasks[t].initArgs.plugins = <<>>
                  /\ tasks[t].calcArgs = tasks[t].initArgs

\* the caller supplied a safe period of its own
C28_Witness ==
    \E t \in TaskIds :
        /\ DeployDone(t) /\ tasks[t].out.kind = "ok"
        /\ tasks[t].dargs.initialGuardianSafePeriod = Some(1)
        /\ Len(tasks[t].initArgs.modules) = 2

FactoryDone(t) == tasks[t].op = "factory" /\ tasks[t].pc = "done"

\* the CREATE2 address for a logic contract and the salt word in use
ExpectedFactoryAddr(logic, word) ==
    <<"0", "x">> \o toLowerCase(SingletonFactoryAddr \o Body(word) \o logic)

\* what a finished deploy call must show, given which salts count as rejected
\* and which salt word the address is computed with
FactoryDeployHolds(t, badSalt, word) ==
    LET x == tasks[t]
        a == x.fargs
    IN /\ x.sent <= 1
       /\ (a.ver # 1 \/ badSalt)
             => /\ x.out.kind = "throw"
                /\ x.code1 = "none" /\ x.code2 = "none" /\ x.sent = 0
       /\ x.code1 = "code"
             => x.out.kind = "ok" /\ x.sent = 0 /\ x.code2 = "none"
       /\ x.out.kind = "ok"
             => /\ x.retAddr = ExpectedFactoryAddr(a.logicContractAddress, word)
                /\ \/ x.code1 = "code"
                   \/ x.code1 = "0x" /\ x.sent = 1 /\ x.waited /\ x.code2 = "code"
       /\ x.out.kind # "ok" => x.retAddr = <<>>
       /\ x.code2 = "0x" => x.out = Throw("deploy factory failed")

\* C29 as stated: DeployFactory.deploy sends no transaction and returns the
\* computed address when code is already there; otherwise it sends one deploy
\* transaction, waits for it and returns the address only if code is there
\* afterwards, throwing 'deploy factory failed' when it is not; a version
\* other than 1 or any salt that is not 32 bytes, the empty string included,
\* makes it throw before any code read or transaction.
C29_AnyShortSaltThrows ==
    \A t \in TaskIds :
        FactoryDone(t) =>
            LET a == tasks[t].fargs
            IN FactoryDeployHolds(t,
                   a.salt # None /\ a.salt[1] \in {SaltShort, SaltNotHex, SaltEmpty},
                   IF a.salt = None THEN bytes32_zero ELSE a.salt[1])

\* C29, amended: as above, except that only a non-empty salt that is no
\* 32-byte hex word makes deploy throw before any code read or transaction;
\* the empty string is treated as a salt left out and the address is computed
\* with the zero word.
C29_FactoryDeploy ==
    \A t \in TaskIds :
        FactoryDone(t) =>
            LET a == tasks[t].fargs
            IN FactoryDeployHolds(t,
                   a.salt # None /\ a.salt[1] \in {SaltShort, SaltNotHex},
                   IF a.salt \in {None, Some(SaltEmpty)} THEN bytes32_zero ELSE a.salt[1])

\* a call with the empty string as salt found no code, sent one transaction,
\* waited for it and returned the address computed with the zero word
C29_Witness ==
    \E t \in TaskIds :
        /\ FactoryDone(t) /\ tasks[t].fargs.salt = Some(SaltEmpty)
        /\ tasks[t].code1 = "0x" /\ tasks[t].sent = 1
        /\ tasks[t].waited /\ tasks[t].code2 = "code"
        /\ tasks[t].out.kind = "ok"
        /\ tasks[t].retAddr = ExpectedFactoryAddr(tasks[t].fargs.logicContractAddress, bytes32_zero)

\* every field of the config holds a value
FullyFilled(c) == c.chainId # ZeroId /\ c.entryPoint # <<>> /\ c.soulWalletLogic # <<>>

\* C21: under every interleaving of getOnChainConfig calls for one key, the
\* cache entry of the key, once written, is never replaced by a different
\* value, the calls that succeed return equal configs, and no call is handed
\* a config with an unassigned field.
C21_ConcurrentResolveConsistent ==
    /\ [][\A k \in DOMAIN cache : k \in DOMAIN cache' /\ cache'[k] = cache[k]]_vars
    /\ [](\A t, u \in TaskIds :
            (ResolveDone(t) /\ ResolveDone(u)
                /\ tasks[t].out.kind = "ok" /\ tasks[u].out.kind = "ok")
                => tasks[t].out.val = tasks[u].out.val)
    /\ [](\A t \in TaskIds :
            (ResolveDone(t) /\ tasks[t].out.kind = "ok") => FullyFilled(tasks[t].out.val))
    /\ [](\A k \in DOMAIN cache : FullyFilled(cache[k][1]))

\* two calls raced: both read the chain, both wrote the entry, both succeeded
C21_Witness ==
    \E t, u \in TaskIds :
        /\ t # u /\ ResolveDone(t) /\ ResolveDone(u)
        /\ tasks[t].wrote /\ tasks[u].wrote
        /\ tasks[t].out.kind = "ok" /\ tasks[u].out.kind = "ok"
====
